---------------------------- MODULE Spec2Model ----------------------------
(***************************************************************************)
(* Model of ticlib (src/src/ticlib/ticlib.py): the Tic stepper-motor       *)
(* controller driver.  The protocol registry (COMMANDS, the variable and   *)
(* setting tables), the bit-value codec, the CRC-7 checksum and the three  *)
(* transport adapters (TicSerial, TicI2C, TicUSB) are translated from the  *)
(* Python source.  A transport channel (serial port, I2C backend, USB      *)
(* device handle) is the environment: it records what is written to it and *)
(* answers a read with bytes of its own choosing.                          *)
(***************************************************************************)
EXTENDS Integers, Sequences, FiniteSets, TLC

VARIABLES
  cfg,    \* cfg[t]: the attributes set by the constructor of facade instance t
  wire,   \* wire[ch]: the operations the most recent facade call made on channel ch
  rx,     \* rx[ch]: responses queued on channel ch, not yet read
  last,   \* the most recent facade call: its arguments and its outcome
  calc    \* a direct application of a formatting function or of the CRC: input and output

vars == <<cfg, wire, rx, last, calc>>

---------------------------------------------------------------------------
(* Command input formats (ticlib.py 161-165)                               *)

QUICK == "QUICK"

THIRTY_TWO_BITS == "THIRTY_TWO_BITS"

SEVEN_BITS == "SEVEN_BITS"

BLOCK_READ == "BLOCK_READ"

GET_VARIABLE_CMD == 161

GET_SETTING_CMD == 168

(* A response formatting function stored in a table row: None, unsigned_int, *)
(* signed_int, partial(boolean, a) or partial(bit_range, a, b).              *)
Fmt(f, a, b) == [f |-> f, a |-> a, b |-> b]

FmtNone == Fmt("None", 0, 0)

Cmd(name, code, format) == [name |-> name, code |-> code, format |-> format]

(* a table row whose length is one more than the source gives *)
Entry_longer(name, offset, length, format_response) ==
  [name |-> name, offset |-> offset, length |-> length + 1, fmt |-> format_response]

Entry(name, offset, length, format_response) ==
  [name |-> name, offset |-> offset, length |-> length, fmt |-> format_response]

COMMANDS ==
  <<
    Cmd("set_target_position", 224, THIRTY_TWO_BITS),
    Cmd("set_target_velocity", 227, THIRTY_TWO_BITS),
    Cmd("halt_and_set_position", 236, THIRTY_TWO_BITS),
    Cmd("halt_and_hold", 137, QUICK),
    Cmd("go_home", 151, SEVEN_BITS),
    Cmd("reset_command_timeout", 140, QUICK),
    Cmd("deenergize", 134, QUICK),
    Cmd("energize", 133, QUICK),
    Cmd("exit_safe_start", 131, QUICK),
    Cmd("enter_safe_start", 143, QUICK),
    Cmd("reset", 176, QUICK),
    Cmd("clear_driver_error", 138, QUICK),
    Cmd("set_max_speed", 230, THIRTY_TWO_BITS),
    Cmd("set_starting_speed", 229, THIRTY_TWO_BITS),
    Cmd("set_max_acceleration", 234, THIRTY_TWO_BITS),
    Cmd("set_max_deceleration", 233, THIRTY_TWO_BITS),
    Cmd("set_step_mode", 148, SEVEN_BITS),
    Cmd("set_current_limit", 145, THIRTY_TWO_BITS),
    Cmd("set_decay_mode", 146, SEVEN_BITS),
    Cmd("set_agc_option", 152, SEVEN_BITS)
  >>

TIC_VARIABLES ==
  <<
    Entry("operation_state", 0, 1, Fmt("unsigned_int", 0, 0)),
    Entry("misc_flags", 1, 1, FmtNone),
    Entry("error_status", 2, 2, FmtNone),
    Entry("error_occured", 4, 4, FmtNone),
    Entry("planning_mode", 9, 1, Fmt("unsigned_int", 0, 0)),
    Entry("target_position", 10, 4, Fmt("signed_int", 0, 0)),
    Entry("target_velocity", 14, 4, Fmt("signed_int", 0, 0)),
    Entry("starting_speed", 18, 4, Fmt("unsigned_int", 0, 0)),
    Entry("max_speed", 22, 4, Fmt("unsigned_int", 0, 0)),
    Entry("max_deceleration", 26, 4, Fmt("unsigned_int", 0, 0)),
    Entry("max_acceleration", 30, 4, Fmt("unsigned_int", 0, 0)),
    Entry("current_position", 34, 4, Fmt("signed_int", 0, 0)),
    Entry("current_velocity", 38, 4, Fmt("signed_int", 0, 0)),
    Entry("acting_target_position", 42, 4, Fmt("signed_int", 0, 0)),
    Entry("time_since_last_step", 46, 4, Fmt("unsigned_int", 0, 0)),
    Entry("device_reset", 50, 1, Fmt("unsigned_int", 0, 0)),
    Entry("vin_voltage", 51, 2, Fmt("unsigned_int", 0, 0)),
    Entry("uptime", 53, 4, Fmt("unsigned_int", 0, 0)),
    Entry("encoder_position", 57, 4, Fmt("signed_int", 0, 0)),
    Entry("rc_pulse", 61, 2, Fmt("unsigned_int", 0, 0)),
    Entry("analog_reading_scl", 63, 2, Fmt("unsigned_int", 0, 0)),
    Entry("analog_reading_sda", 65, 2, Fmt("unsigned_int", 0, 0)),
    Entry("analog_reading_tx", 67, 2, Fmt("unsigned_int", 0, 0)),
    Entry("analog_reading_rx", 69, 2, Fmt("unsigned_int", 0, 0)),
    Entry("digital_readings", 71, 1, FmtNone),
    Entry("pin_states", 72, 1, FmtNone),
    Entry("step_mode", 73, 1, Fmt("unsigned_int", 0, 0)),
    Entry("current_limit", 74, 1, Fmt("unsigned_int", 0, 0)),
    Entry("decay_mode", 75, 1, Fmt("unsigned_int", 0, 0)),
    Entry("input_state", 76, 1, Fmt("unsigned_int", 0, 0)),
    Entry("input_after_averaging", 77, 2, Fmt("unsigned_int", 0, 0)),
    Entry("input_after_hysteresis", 79, 2, Fmt("unsigned_int", 0, 0)),
    Entry("input_after_scaling", 81, 4, Fmt("signed_int", 0, 0)),
    Entry("last_motor_driver_error", 85, 1, Fmt("unsigned_int", 0, 0)),
    Entry("agc_mode", 86, 1, Fmt("unsigned_int", 0, 0)),
    Entry("agc_bottom_current_limit", 87, 1, Fmt("unsigned_int", 0, 0)),
    Entry("agc_current_boost_steps", 88, 1, Fmt("unsigned_int", 0, 0)),
    Entry("agc_frequency_limit", 89, 1, Fmt("unsigned_int", 0, 0)),
    Entry("last_hp_driver_errors", 255, 1, FmtNone)
  >>

SETTINGS ==
  <<
    Entry("control_mode", 1, 1, Fmt("unsigned_int", 0, 0)),
    Entry("disable_safe_start", 3, 1, Fmt("boolean", 0, 0)),
    Entry("ignore_err_line_high", 4, 1, Fmt("boolean", 0, 0)),
    Entry("auto_clear_driver_error", 8, 1, Fmt("boolean", 0, 0)),
    Entry("never_sleep", 2, 1, Fmt("boolean", 0, 0)),
    Entry("vin_calibration", 20, 2, Fmt("signed_int", 0, 0)),
    Entry("soft_error_response", 83, 1, Fmt("unsigned_int", 0, 0)),
    Entry("soft_error_position", 84, 4, Fmt("signed_int", 0, 0)),
    Entry("current_limit_during_error", 49, 1, Fmt("unsigned_int", 0, 0)),
    Entry("serial_baud_rate", 6, 2, Fmt("unsigned_int", 0, 0)),
    Entry("serial_enable_alt_device_number", 106, 1, Fmt("boolean", 7, 0)),
    Entry("serial_14bit_device_number", 11, 1, Fmt("boolean", 3, 0)),
    Entry("serial_response_delay", 94, 1, Fmt("unsigned_int", 0, 0)),
    Entry("serial_command_timeout", 9, 2, Fmt("unsigned_int", 0, 0)),
    Entry("serial_crc_for_commands", 11, 1, Fmt("boolean", 0, 0)),
    Entry("serial_crc_for_responses", 11, 1, Fmt("boolean", 1, 0)),
    Entry("serial_7bit_responses", 11, 1, Fmt("boolean", 2, 0)),
    Entry("encoder_prescaler", 88, 4, Fmt("unsigned_int", 0, 0)),
    Entry("encoder_postscaler", 55, 4, Fmt("unsigned_int", 0, 0)),
    Entry("encoder_unlimited", 92, 1, Fmt("boolean", 0, 0)),
    Entry("input_averaging_enabled", 46, 1, Fmt("boolean", 0, 0)),
    Entry("input_hysteresis", 47, 2, Fmt("unsigned_int", 0, 0)),
    Entry("input_invert", 33, 1, Fmt("boolean", 0, 0)),
    Entry("input_max", 40, 2, Fmt("unsigned_int", 0, 0)),
    Entry("output_max", 50, 4, Fmt("signed_int", 0, 0)),
    Entry("input_neutral_max", 38, 2, Fmt("unsigned_int", 0, 0)),
    Entry("input_neutral_min", 36, 2, Fmt("unsigned_int", 0, 0)),
    Entry("input_min", 34, 2, Fmt("unsigned_int", 0, 0)),
    Entry("output_min", 42, 4, Fmt("signed_int", 0, 0)),
    Entry("input_scaling_degree", 32, 1, Fmt("unsigned_int", 0, 0)),
    Entry("scl_config", 59, 1, FmtNone),
    Entry("scl_pin_function", 59, 1, Fmt("bit_range", 0, 3)),
    Entry("scl_enable_analog", 59, 1, Fmt("boolean", 6, 0)),
    Entry("scl_enable_pull_up", 59, 1, Fmt("boolean", 7, 0)),
    Entry("scl_active_high", 54, 1, Fmt("boolean", 0, 0)),
    Entry("scl_kill_switch", 93, 1, Fmt("boolean", 0, 0)),
    Entry("scl_limit_switch_forward", 95, 1, Fmt("boolean", 0, 0)),
    Entry("scl_limit_switch_reverse", 96, 1, Fmt("boolean", 0, 0)),
    Entry("sda_config", 60, 1, FmtNone),
    Entry("sda_pin_function", 60, 1, Fmt("bit_range", 0, 3)),
    Entry("sda_enable_analog", 60, 1, Fmt("boolean", 6, 0)),
    Entry("sda_enable_pull_up", 60, 1, Fmt("boolean", 7, 0)),
    Entry("sda_active_high", 54, 1, Fmt("boolean", 1, 0)),
    Entry("sda_kill_switch", 93, 1, Fmt("boolean", 1, 0)),
    Entry("sda_limit_switch_forward", 95, 1, Fmt("boolean", 1, 0)),
    Entry("sda_limit_switch_reverse", 96, 1, Fmt("boolean", 1, 0)),
    Entry("tx_config", 61, 1, FmtNone),
    Entry("tx_pin_function", 61, 1, Fmt("bit_range", 0, 3)),
    Entry("tx_enable_analog", 61, 1, Fmt("boolean", 6, 0)),
    Entry("tx_active_high", 54, 1, Fmt("boolean", 2, 0)),
    Entry("tx_kill_switch", 93, 1, Fmt("boolean", 2, 0)),
    Entry("tx_limit_switch_forward", 95, 1, Fmt("boolean", 2, 0)),
    Entry("tx_limit_switch_reverse", 96, 1, Fmt("boolean", 2, 0)),
    Entry("rx_config", 62, 1, FmtNone),
    Entry("rx_pin_function", 62, 1, Fmt("bit_range", 0, 3)),
    Entry("rx_enable_analog", 62, 1, Fmt("boolean", 6, 0)),
    Entry("rx_active_high", 54, 1, Fmt("boolean", 3, 0)),
    Entry("rx_kill_switch", 93, 1, Fmt("boolean", 3, 0)),
    Entry("rx_limit_switch_forward", 95, 1, Fmt("boolean", 3, 0)),
    Entry("rx_limit_switch_reverse", 96, 1, Fmt("boolean", 3, 0)),
    Entry("rc_config", 63, 1, FmtNone),
    Entry("rc_active_high", 54, 1, Fmt("boolean", 4, 0)),
    Entry("rc_kill_switch", 93, 1, Fmt("boolean", 4, 0)),
    Entry("rc_limit_switch_forward", 95, 1, Fmt("boolean", 4, 0)),
    Entry("rc_limit_switch_reverse", 96, 1, Fmt("boolean", 4, 0)),
    Entry("invert_motor_direction", 27, 1, Fmt("boolean", 0, 0)),
    Entry("max_speed", 71, 4, Fmt("unsigned_int", 0, 0)),
    Entry("starting_speed", 67, 4, Fmt("unsigned_int", 0, 0)),
    Entry("max_acceleration", 79, 4, Fmt("unsigned_int", 0, 0)),
    Entry("max_deceleration", 75, 4, Fmt("unsigned_int", 0, 0)),
    Entry("step_mode", 65, 1, Fmt("unsigned_int", 0, 0)),
    Entry("current_limit", 64, 1, Fmt("unsigned_int", 0, 0)),
    Entry("decay_mode", 66, 1, Fmt("unsigned_int", 0, 0)),
    Entry("auto_homing", 2, 1, Fmt("boolean", 1, 0)),
    Entry("auto_homing_forward", 3, 1, Fmt("boolean", 2, 0)),
    Entry("homing_speed_towards", 97, 4, Fmt("unsigned_int", 0, 0)),
    Entry("homing_speed_away", 101, 4, Fmt("unsigned_int", 0, 0)),
    Entry("agc_mode", 108, 1, Fmt("unsigned_int", 0, 0)),
    Entry("agc_bottom_current_limit", 109, 1, Fmt("unsigned_int", 0, 0)),
    Entry("agc_current_boost_steps", 110, 1, Fmt("unsigned_int", 0, 0)),
    Entry("agc_frequency_limit", 111, 1, Fmt("unsigned_int", 0, 0)),
    Entry("hp_enable_unrestricted_current_limits", 108, 1, Fmt("boolean", 0, 0)),
    Entry("hp_fixed_off_time", 246, 1, Fmt("unsigned_int", 0, 0)),
    Entry("hp_current_trip_blanking_time", 248, 1, Fmt("unsigned_int", 0, 0)),
    Entry("hp_enable_adaptive_blanking_time", 249, 1, Fmt("boolean", 0, 0)),
    Entry("hp_mixed_decay_transition_time", 250, 1, Fmt("unsigned_int", 0, 0)),
    Entry("hp_decay_mode", 251, 1, Fmt("unsigned_int", 0, 0))
  >>


---------------------------------------------------------------------------
(* Integers and bytes.  Python integers are unbounded; an integer that may *)
(* exceed 31 bits (the result of int.from_bytes on four bytes) is kept as  *)
(* the pair [hi, lo] standing for hi * 65536 + lo, with lo in 0..65535.    *)

(* Python's v >> k, for negative v too: floor division by 2^k *)
Shr(v, k) == v \div (2 ^ k)

(* bit k of v (of its two's complement when v is negative) *)
Bit(v, k) == Shr(v, k) % 2

RECURSIVE XorBits(_, _, _)
XorBits(a, b, n) ==
  IF n = 0 THEN 0
  ELSE ((a + b) % 2) + 2 * XorBits(a \div 2, b \div 2, n - 1)

(* a ^ b on values below 16, tabulated *)
XorNibble == [a \in 0..15 |-> [b \in 0..15 |-> XorBits(a, b, 4)]]

(* a ^ b on values below 256 *)
Xor(a, b) == 16 * XorNibble[a \div 16][b \div 16] + XorNibble[a % 16][b % 16]

ByteAt(value, i) == IF i <= Len(value) THEN value[i] ELSE 0

Wide(hi, lo) == [hi |-> hi, lo |-> lo]

(* int.from_bytes(bytearray(value), 'little'), for at most four bytes *)
from_bytes(value) ==
  Wide(ByteAt(value, 3) + 256 * ByteAt(value, 4),
       ByteAt(value, 1) + 256 * ByteAt(value, 2))

(* bit i of a non-negative wide integer *)
WideBit(w, i) ==
  IF i < 16 THEN Bit(w.lo, i) ELSE IF i < 32 THEN Bit(w.hi, i - 16) ELSE 0

(* w >= (1 << k), for a non-negative w *)
WideGeShl(w, k) ==
  IF k >= 16 THEN w.hi >= 2 ^ (k - 16) ELSE w.hi > 0 \/ w.lo >= 2 ^ k

(* w - (1 << k) *)
WideSubShl(w, k) ==
  IF k >= 16 THEN Wide(w.hi - 2 ^ (k - 16), w.lo)
  ELSE IF w.lo >= 2 ^ k THEN Wide(w.hi, w.lo - 2 ^ k)
  ELSE Wide(w.hi - 1, w.lo + 65536 - 2 ^ k)

(* len(bin(w)) - 2: the number of binary digits Python prints, "0" for zero *)
BitLength(w) ==
  LET S == {i \in 0..31 : WideBit(w, i) = 1}
  IN  IF S = {} THEN 1 ELSE (CHOOSE i \in S : \A j \in S : j <= i) + 1

(* the integer whose bit j is bit (from + j) of w, for from + j <= to *)
RECURSIVE BitsToInt(_, _, _)
BitsToInt(w, from, to) ==
  IF from > to THEN 0 ELSE WideBit(w, from) + 2 * BitsToInt(w, from + 1, to)

---------------------------------------------------------------------------
(* Values returned to the caller of a read: raw bytes, an integer or a     *)
(* boolean.                                                                *)

NoVal == [k |-> "none", hi |-> 0, lo |-> 0, bytes |-> <<>>, flag |-> FALSE]

BytesVal(b) == [k |-> "bytes", hi |-> 0, lo |-> 0, bytes |-> b, flag |-> FALSE]

IntVal(w) == [k |-> "int", hi |-> w.hi, lo |-> w.lo, bytes |-> <<>>, flag |-> FALSE]

BoolVal(x) == [k |-> "bool", hi |-> 0, lo |-> 0, bytes |-> <<>>, flag |-> x]

(* A formatting function either returns a value or raises *)
Returned(v) == [ok |-> TRUE, val |-> v, exc |-> ""]

Raised(exc) == [ok |-> FALSE, val |-> NoVal, exc |-> exc]

---------------------------------------------------------------------------
(* Output formatting functions (ticlib.py 106-146)                         *)

(* boolean counting bit_index from one *)
boolean_from_one(bit_index, value) ==
  LET int_value == from_bytes(value)
  IN  WideBit(int_value, bit_index + 1) # 0

boolean(bit_index, value) ==
  LET int_value == from_bytes(value)
  IN  WideBit(int_value, bit_index) # 0

(* bin() digits, reversed, sliced [start:end + 1], reversed back, int(bits, 2); *)
(* int('', 2) raises ValueError when the slice is empty                         *)
bit_range(start, end, value) ==
  LET int_value == from_bytes(value)
      ndigits   == BitLength(int_value)
      stop      == IF end + 1 < ndigits THEN end + 1 ELSE ndigits
  IN  IF start >= stop
      THEN Raised("ValueError")
      ELSE Returned(IntVal(
             Wide(IF start + 16 < stop THEN BitsToInt(int_value, start + 16, stop - 1) ELSE 0,
                  BitsToInt(int_value, start,
                            IF start + 16 < stop THEN start + 15 ELSE stop - 1))))

(* signed_int without the subtraction of 1 << (num_bytes * 8) *)
signed_int_unadjusted(value) == from_bytes(value)

signed_int(value) ==
  LET result    == from_bytes(value)
      num_bytes == Len(value)
  IN  IF WideGeShl(result, num_bytes * 8 - 1)
      THEN WideSubShl(result, num_bytes * 8)
      ELSE result

(* unsigned_int reading the top bit as a sign *)
unsigned_int_signed(value) == signed_int(value)

unsigned_int(value) == from_bytes(value)

(* format_response(result) for the formatting function a table row holds *)
ApplyFormat(fmt, value) ==
  CASE fmt.f = "unsigned_int" -> Returned(IntVal(unsigned_int(value)))
    [] fmt.f = "signed_int"   -> Returned(IntVal(signed_int(value)))
    [] fmt.f = "boolean"      -> Returned(BoolVal(boolean(fmt.a, value)))
    [] fmt.f = "bit_range"    -> bit_range(fmt.a, fmt.b, value)

---------------------------------------------------------------------------
(* CRC-7 (ticlib.py 2163-2175)                                             *)

(* for j in range(8): if crc & 1: crc ^= 0x91; crc >>= 1 *)
RECURSIVE CrcBits(_, _)
CrcBits(crc, j) ==
  IF j = 0 THEN crc
  ELSE CrcBits((IF crc % 2 = 1 THEN Xor(crc, 145) ELSE crc) \div 2, j - 1)

(* the eight inner steps applied to each value crc can hold after crc ^= message[i] *)
CrcByte == [crc \in 0..255 |-> CrcBits(crc, 8)]

(* a checksum in place of the CRC: the sum of the bytes, kept to 7 bits *)
get_crc_7_sum(message) ==
  LET sum[i \in 0..Len(message)] ==
        IF i = 0 THEN 0 ELSE (sum[i - 1] + message[i]) % 128
  IN  <<sum[Len(message)]>>

(* returns the one-byte sequence crc.to_bytes(1, 'little') *)
get_crc_7(message) ==
  LET crc[i \in 0..Len(message)] ==
        IF i = 0 THEN 0 ELSE CrcByte[Xor(crc[i - 1], message[i])]
  IN  <<crc[Len(message)]>>

---------------------------------------------------------------------------
(* Transport channels.  A channel operation is a write of bytes, a read of *)
(* n bytes, or (USB) a control transfer                                    *)
(* (bmRequestType, bRequest, wValue, wIndex, data_or_wLength).             *)

WriteOp(serialized) == [op |-> "write", data |-> serialized, n |-> 0]

ReadOp(length) == [op |-> "read", data |-> <<>>, n |-> length]

CtrlOp(bmRequestType, bRequest, wValue, wIndex, wLength) ==
  [op |-> "ctrl_transfer",
   data |-> <<bmRequestType, bRequest, wValue, wIndex, wLength>>, n |-> 0]

(* What a channel read hands back: a byte sequence, or None (a serial port *)
(* whose read() returns None on timeout)                                   *)
SomeBytes(b) == [isNone |-> FALSE, bytes |-> b]

NoneResp == [isNone |-> TRUE, bytes |-> <<>>]

(* The outcome of an adapter method: the channel operations it made, in    *)
(* order, and either the value it returned or the exception it raised.     *)
(* message is what the channel read step yielded to the length check.      *)
Ok(ops, message, ret) ==
  [ops |-> ops, status |-> "ok", error |-> "", expected |-> 0, got |-> 0,
   message |-> message, ret |-> ret]

Fail(ops, error, expected, got) ==
  [ops |-> ops, status |-> "error", error |-> error, expected |-> expected,
   got |-> got, message |-> <<>>, ret |-> NoVal]

ExpectedToRead == "Expected to read {} bytes, got {}."

(* VerifyAndFormat without its length check *)
VerifyAndFormat_unchecked(ops, result, length, format_response) ==
  IF format_response.f = "None"
  THEN Ok(ops, result, BytesVal(result))
  ELSE LET r == ApplyFormat(format_response, result)
       IN  IF r.ok THEN Ok(ops, result, r.val) ELSE Fail(ops, r.exc, 0, 0)

(* The common tail of the three _block_read methods: the length check and  *)
(* the formatting of the result                                            *)
VerifyAndFormat(ops, result, length, format_response) ==
  IF Len(result) # length
  THEN Fail(ops, ExpectedToRead, length, Len(result))
  ELSE IF format_response.f = "None"
       THEN Ok(ops, result, BytesVal(result))
       ELSE LET r == ApplyFormat(format_response, result)
            IN  IF r.ok THEN Ok(ops, result, r.val) ELSE Fail(ops, r.exc, 0, 0)

---------------------------------------------------------------------------
(* TicSerial (ticlib.py 2178-2267).  self is the instance's attributes.    *)

NoDeviceNumber == -1

TicSerial(port, device_number, crc_for_commands, crc_for_responses) ==
  [kind |-> "TicSerial", chan |-> port, device_number |-> device_number,
   crc_for_commands |-> crc_for_commands, crc_for_responses |-> crc_for_responses]

(* SerialHeader testing the device number for truth: 0 counts as not given *)
SerialHeader_falsy(self, command_code) ==
  IF self.device_number = NoDeviceNumber \/ self.device_number = 0
  THEN <<command_code>>
  ELSE <<170, self.device_number, command_code % 128>>

(* SerialHeader without the & 0x7F on the command code *)
SerialHeader_unmasked(self, command_code) ==
  IF self.device_number = NoDeviceNumber
  THEN <<command_code>>
  ELSE <<170, self.device_number, command_code>>

(* Compact protocol or Pololu protocol *)
SerialHeader(self, command_code) ==
  IF self.device_number = NoDeviceNumber
  THEN <<command_code>>
  ELSE <<170, self.device_number, command_code % 128>>

(* SerialThirtyTwoBits with the byte of most significant bits left at 0 *)
SerialThirtyTwoBits_no_msbs(value) ==
  << 0,
     Shr(value, 0) % 128,
     Shr(value, 8) % 128,
     Shr(value, 16) % 128,
     Shr(value, 24) % 128 >>

(* SerialThirtyTwoBits over successive 7-bit groups of the value *)
SerialThirtyTwoBits_groups(value) ==
  << Bit(value, 7) + 2 * Bit(value, 14) + 4 * Bit(value, 21) + 8 * Bit(value, 28),
     Shr(value, 0) % 128,
     Shr(value, 7) % 128,
     Shr(value, 14) % 128,
     Shr(value, 21) % 128 >>

(* SerialThirtyTwoBits with the data bytes masked & 0xFF *)
SerialThirtyTwoBits_bytes(value) ==
  << Bit(Shr(value, 7), 0) + 2 * Bit(Shr(value, 14), 1)
       + 4 * Bit(Shr(value, 21), 2) + 8 * Bit(Shr(value, 28), 3),
     Shr(value, 0) % 256,
     Shr(value, 8) % 256,
     Shr(value, 16) % 256,
     Shr(value, 24) % 256 >>

(* ((value >> 7) & 1) | ((value >> 14) & 2) | ((value >> 21) & 4) |       *)
(* ((value >> 28) & 8), then value >> 0, 8, 16, 24, each & 0x7F            *)
SerialThirtyTwoBits(value) ==
  << Bit(Shr(value, 7), 0) + 2 * Bit(Shr(value, 14), 1)
       + 4 * Bit(Shr(value, 21), 2) + 8 * Bit(Shr(value, 28), 3),
     Shr(value, 0) % 128,
     Shr(value, 8) % 128,
     Shr(value, 16) % 128,
     Shr(value, 24) % 128 >>

SerialParameter(format, value) ==
  CASE format = SEVEN_BITS      -> <<value>>
    [] format = THIRTY_TWO_BITS -> SerialThirtyTwoBits(value)
    [] format = BLOCK_READ      -> value
    [] OTHER                    -> <<>>

SerialCrc(self, serialized) ==
  IF self.crc_for_commands THEN serialized \o get_crc_7(serialized) ELSE serialized

(* TicSerial_send_command writing the frame twice *)
TicSerial_send_command_twice(self, command_code, format, value) ==
  LET serialized ==
        SerialCrc(self, SerialHeader(self, command_code) \o SerialParameter(format, value))
  IN  <<WriteOp(serialized), WriteOp(serialized)>>

TicSerial_send_command(self, command_code, format, value) ==
  LET serialized ==
        SerialCrc(self, SerialHeader(self, command_code) \o SerialParameter(format, value))
  IN  <<WriteOp(serialized)>>

(* TicSerial_read_response returning the message without comparing the CRC *)
TicSerial_read_response_unverified(self, length, resp) ==
  IF self.crc_for_responses
  THEN LET ops == <<ReadOp(length + 1)>>
       IN  IF resp.isNone
           THEN [ops |-> ops, raised |-> TRUE, error |-> "TypeError", result |-> NoneResp]
           ELSE IF Len(resp.bytes) # length + 1
           THEN [ops |-> ops, raised |-> TRUE,
                 error |-> "Response does not contain CRC byte", result |-> NoneResp]
           ELSE [ops |-> ops, raised |-> FALSE, error |-> "",
                 result |-> SomeBytes(SubSeq(resp.bytes, 1, length))]
  ELSE [ops |-> <<ReadOp(length)>>, raised |-> FALSE, error |-> "", result |-> resp]

(* TicSerial_read_response comparing the CRC before counting the bytes *)
TicSerial_read_response_crc_first(self, length, resp) ==
  IF self.crc_for_responses
  THEN LET ops      == <<ReadOp(length + 1)>>
           response == resp.bytes
           message  == SubSeq(response, 1, Len(response) - 1)
       IN  IF resp.isNone
           THEN [ops |-> ops, raised |-> TRUE, error |-> "TypeError", result |-> NoneResp]
           ELSE IF response = <<>>
           THEN [ops |-> ops, raised |-> TRUE, error |-> "IndexError", result |-> NoneResp]
           ELSE IF <<response[Len(response)]>> # get_crc_7(message)
           THEN [ops |-> ops, raised |-> TRUE,
                 error |-> "Response CRC check failed", result |-> NoneResp]
           ELSE IF Len(response) # length + 1
           THEN [ops |-> ops, raised |-> TRUE,
                 error |-> "Response does not contain CRC byte", result |-> NoneResp]
           ELSE [ops |-> ops, raised |-> FALSE, error |-> "", result |-> SomeBytes(message)]
  ELSE [ops |-> <<ReadOp(length)>>, raised |-> FALSE, error |-> "", result |-> resp]

(* [ops, raised, error, result]: result is the return value when not raised *)
TicSerial_read_response(self, length, resp) ==
  IF self.crc_for_responses
  THEN LET ops      == <<ReadOp(length + 1)>>
           response == resp.bytes
           message  == SubSeq(response, 1, length)
           crc      == <<response[Len(response)]>>
       IN  IF resp.isNone
           THEN [ops |-> ops, raised |-> TRUE, error |-> "TypeError", result |-> NoneResp]
           ELSE IF Len(response) # length + 1
           THEN [ops |-> ops, raised |-> TRUE,
                 error |-> "Response does not contain CRC byte", result |-> NoneResp]
           ELSE IF crc = get_crc_7(message)
           THEN [ops |-> ops, raised |-> FALSE, error |-> "", result |-> SomeBytes(message)]
           ELSE [ops |-> ops, raised |-> TRUE,
                 error |-> "Response CRC check failed", result |-> NoneResp]
  ELSE [ops |-> <<ReadOp(length)>>, raised |-> FALSE, error |-> "", result |-> resp]

(* SerialBlockRequest without the upper-half branch *)
SerialBlockRequest_plain(offset, length) == <<offset, length>>

SerialBlockRequest(offset, length) ==
  IF offset >= 128 THEN <<offset - 128, length + 64>> ELSE <<offset, length>>

(* TicSerial_block_read without its test for None: None counts as no bytes *)
TicSerial_block_read_no_none_test(self, command_code, offset, length, format_response, resp) ==
  LET sent == TicSerial_send_command(self, command_code, BLOCK_READ,
                                     SerialBlockRequest(offset, length))
      read == TicSerial_read_response(self, length, resp)
      ops  == sent \o read.ops
  IN  IF read.raised
      THEN Fail(ops, read.error, 0, 0)
      ELSE VerifyAndFormat(ops, read.result.bytes, length, format_response)

TicSerial_block_read(self, command_code, offset, length, format_response, resp) ==
  LET sent == TicSerial_send_command(self, command_code, BLOCK_READ,
                                     SerialBlockRequest(offset, length))
      read == TicSerial_read_response(self, length, resp)
      ops  == sent \o read.ops
  IN  IF read.raised
      THEN Fail(ops, read.error, 0, 0)
      ELSE IF read.result.isNone
      THEN Fail(ops, "Read response returned 'None', read likely timed out", 0, 0)
      ELSE VerifyAndFormat(ops, read.result.bytes, length, format_response)

---------------------------------------------------------------------------
(* TicI2C (ticlib.py 2270-2311)                                            *)

TicI2C(backend) ==
  [kind |-> "TicI2C", chan |-> backend, device_number |-> NoDeviceNumber,
   crc_for_commands |-> FALSE, crc_for_responses |-> FALSE]

(* I2CThirtyTwoBits most significant byte first *)
I2CThirtyTwoBits_big_endian(value) ==
  << Shr(value, 24) % 256, Shr(value, 16) % 256, Shr(value, 8) % 256, Shr(value, 0) % 256 >>

I2CThirtyTwoBits(value) ==
  << Shr(value, 0) % 256, Shr(value, 8) % 256, Shr(value, 16) % 256, Shr(value, 24) % 256 >>

I2CParameter(format, value) ==
  CASE format = SEVEN_BITS      -> <<value>>
    [] format = THIRTY_TWO_BITS -> I2CThirtyTwoBits(value)
    [] format = BLOCK_READ      -> value
    [] OTHER                    -> <<>>

TicI2C_send_command(self, command_code, format, value) ==
  LET serialized == <<command_code>> \o I2CParameter(format, value)
  IN  <<WriteOp(serialized)>>

(* TicI2C_block_read sending the request bytes TicSerial sends *)
TicI2C_block_read_serial_request(self, command_code, offset, length, format_response, resp) ==
  LET ops == TicI2C_send_command(self, command_code, BLOCK_READ,
                                 SerialBlockRequest(offset, length))
               \o <<ReadOp(length)>>
  IN  VerifyAndFormat(ops, resp.bytes, length, format_response)

(* TicI2C_block_read returning the bytes read whatever format_response is *)
TicI2C_block_read_raw(self, command_code, offset, length, format_response, resp) ==
  LET ops == TicI2C_send_command(self, command_code, BLOCK_READ, <<offset, length>>)
               \o <<ReadOp(length)>>
  IN  VerifyAndFormat(ops, resp.bytes, length, FmtNone)

TicI2C_block_read(self, command_code, offset, length, format_response, resp) ==
  LET ops == TicI2C_send_command(self, command_code, BLOCK_READ, <<offset, length>>)
               \o <<ReadOp(length)>>
  IN  VerifyAndFormat(ops, resp.bytes, length, format_response)

---------------------------------------------------------------------------
(* TicUSB (ticlib.py 2314-2355)                                            *)

TicUSB(usb) ==
  [kind |-> "TicUSB", chan |-> usb, device_number |-> NoDeviceNumber,
   crc_for_commands |-> FALSE, crc_for_responses |-> FALSE]

(* TicUSB_send_command without the & 0xFFFF on the upper half *)
TicUSB_send_command_unmasked(self, command_code, format, value) ==
  CASE format = QUICK           -> <<CtrlOp(64, command_code, 0, 0, 0)>>
    [] format = SEVEN_BITS      -> <<CtrlOp(64, command_code, value, 0, 0)>>
    [] format = THIRTY_TWO_BITS ->
         <<CtrlOp(64, command_code, value % 65536, Shr(value, 16), 0)>>
    [] OTHER                    -> <<>>

TicUSB_send_command(self, command_code, format, value) ==
  CASE format = QUICK           -> <<CtrlOp(64, command_code, 0, 0, 0)>>
    [] format = SEVEN_BITS      -> <<CtrlOp(64, command_code, value, 0, 0)>>
    [] format = THIRTY_TWO_BITS ->
         <<CtrlOp(64, command_code, value % 65536, Shr(value, 16) % 65536, 0)>>
    [] OTHER                    -> <<>>

(* TicUSB_block_read asking with an outbound transfer before the inbound one *)
TicUSB_block_read_two_transfers(self, command_code, offset, length, format_response, resp) ==
  LET ops == <<CtrlOp(64, command_code, 0, offset, 0),
               CtrlOp(192, command_code, 0, offset, length)>>
  IN  VerifyAndFormat(ops, resp.bytes, length, format_response)

TicUSB_block_read(self, command_code, offset, length, format_response, resp) ==
  LET ops == <<CtrlOp(192, command_code, 0, offset, length)>>
  IN  VerifyAndFormat(ops, resp.bytes, length, format_response)

---------------------------------------------------------------------------
(* The facade (TicBase, ticlib.py 1360-1407; Settings, 373-417)            *)

(* Facade instances and the channels they are constructed on *)
Tics == {1, 2}

Chans == {1, 2}

(* ChannelOf when the bound methods are shared by all instances: the       *)
(* channel of the instance constructed last                                *)
ChannelOf_shared(t) == cfg[2].chan

(* self.port / self.backend / self.usb: the instance's own attribute *)
ChannelOf(t) == cfg[t].chan

(* partial(self._send_command, code, format): the subclass's method *)
send_command(self, command_code, format, value) ==
  CASE self.kind = "TicSerial" -> TicSerial_send_command(self, command_code, format, value)
    [] self.kind = "TicI2C"    -> TicI2C_send_command(self, command_code, format, value)
    [] self.kind = "TicUSB"    -> TicUSB_send_command(self, command_code, format, value)

(* partial(self._block_read, command, offset, length, format_response) *)
block_read(self, command_code, offset, length, format_response, resp) ==
  CASE self.kind = "TicSerial" ->
         TicSerial_block_read(self, command_code, offset, length, format_response, resp)
    [] self.kind = "TicI2C" ->
         TicI2C_block_read(self, command_code, offset, length, format_response, resp)
    [] self.kind = "TicUSB" ->
         TicUSB_block_read(self, command_code, offset, length, format_response, resp)

(* no formatting function has been applied directly *)
NoCalc ==
  [kind |-> "none", f |-> "none", value |-> <<>>, v |-> 0, a |-> 0, b |-> 0,
   out |-> Returned(NoVal)]

NoCall ==
  [tic |-> 0, op |-> "init", name |-> "", code |-> 0, format |-> QUICK, value |-> 0,
   offset |-> 0, length |-> 0, fmt |-> FmtNone, resp |-> NoneResp,
   status |-> "none", error |-> "", expected |-> 0, got |-> 0,
   message |-> <<>>, ret |-> NoVal, reads |-> <<>>, dict |-> <<>>]

(* the attributes of the instance the call was made on *)
Self == cfg[last.tic]

(* a call that leaves the commands-CRC flag of its instance set *)
Record_sets_crc(t, call, out) ==
  /\ wire' = [ch \in Chans |-> IF ch = cfg[t].chan THEN out.ops ELSE <<>>]
  /\ last' = [call EXCEPT !.tic = t, !.status = out.status, !.error = out.error,
                          !.expected = out.expected, !.got = out.got,
                          !.message = out.message, !.ret = out.ret]
  /\ cfg' = [cfg EXCEPT ![t].crc_for_commands = TRUE]
  /\ UNCHANGED calc

(* The call's channel operations land on the instance's channel; the call's *)
(* arguments and outcome are recorded.                                      *)
Record(t, call, out) ==
  /\ wire' = [ch \in Chans |-> IF ch = ChannelOf(t) THEN out.ops ELSE <<>>]
  /\ last' = [call EXCEPT !.tic = t, !.status = out.status, !.error = out.error,
                          !.expected = out.expected, !.got = out.got,
                          !.message = out.message, !.ret = out.ret]
  /\ UNCHANGED <<cfg, calc>>

(* tic.<command>(value) for row i of COMMANDS *)
Command(t, i, value) ==
  LET c == COMMANDS[i]
  IN  Record(t,
             [NoCall EXCEPT !.op = "command", !.name = c.name, !.code = c.code,
                            !.format = c.format, !.value = value],
             Ok(send_command(cfg[t], c.code, c.format, value), <<>>, NoVal))

(* tic.get_<variable>() for row i of the variable table *)
GetVariable(t, i, resp) ==
  LET e == TIC_VARIABLES[i]
  IN  Record(t,
             [NoCall EXCEPT !.op = "get_variable", !.name = e.name,
                            !.code = GET_VARIABLE_CMD, !.format = BLOCK_READ,
                            !.offset = e.offset, !.length = e.length,
                            !.fmt = e.fmt, !.resp = resp],
             block_read(cfg[t], GET_VARIABLE_CMD, e.offset, e.length, e.fmt, resp))

(* tic.settings.get_<setting>() for row i of SETTINGS *)
GetSetting(t, i, resp) ==
  LET e == SETTINGS[i]
  IN  Record(t,
             [NoCall EXCEPT !.op = "get_setting", !.name = e.name,
                            !.code = GET_SETTING_CMD, !.format = BLOCK_READ,
                            !.offset = e.offset, !.length = e.length,
                            !.fmt = e.fmt, !.resp = resp],
             block_read(cfg[t], GET_SETTING_CMD, e.offset, e.length, e.fmt, resp))

(* tic._block_read(command_code, offset, length): the call the Settings    *)
(* object makes for the device-number bytes, format_response left None     *)
BlockRead(t, command_code, offset, length, resp) ==
  Record(t,
         [NoCall EXCEPT !.op = "block_read", !.name = "_block_read",
                        !.code = command_code, !.format = BLOCK_READ,
                        !.offset = offset, !.length = length, !.resp = resp],
         block_read(cfg[t], command_code, offset, length, FmtNone, resp))

---------------------------------------------------------------------------
(* Inputs                                                                  *)

MaxRespLen == 5

DeviceNumbers == {NoDeviceNumber, 0, 9}

(* every way the first instance can be constructed on channel ch *)
Configs(ch) ==
  {TicSerial(ch, d, cc, cr) : d \in DeviceNumbers, cc \in BOOLEAN, cr \in BOOLEAN}
    \cup {TicI2C(ch), TicUSB(ch)}

Int32Min == -(2 ^ 30) - 2 ^ 30

Int32Max == (2 ^ 30 - 1) + 2 ^ 30

(* 32-bit arguments: every single bit, every single cleared bit, the ends *)
Vals32 ==
  {2 ^ k : k \in 0..30} \cup {-1 - 2 ^ k : k \in 0..30}
    \cup {Int32Min, Int32Max, -99, -1, 0}

Vals7 == {0, 1, 64, 127}

ArgsOf(format) ==
  CASE format = THIRTY_TWO_BITS -> Vals32
    [] format = SEVEN_BITS      -> Vals7
    [] OTHER                    -> {0}

(* response bytes: a first byte followed by a repeated byte *)
Seeds == {<<0, 0>>, <<255, 255>>, <<157, 255>>, <<1, 0>>, <<2, 0>>, <<4, 0>>,
          <<8, 0>>, <<128, 128>>}

RespBytes(n, s) == [i \in 1..n |-> IF i = 1 THEN s[1] ELSE s[2]]

(* what a device puts on the channel to return payload: the payload, followed *)
(* by its CRC byte when the adapter was constructed to expect one             *)
Deliver(self, payload) ==
  IF self.kind = "TicSerial" /\ self.crc_for_responses
  THEN SomeBytes(payload \o get_crc_7(payload))
  ELSE SomeBytes(payload)

RawResponses == {RespBytes(n, s) : n \in 0..MaxRespLen, s \in Seeds}

(* the same with a correct CRC byte appended *)
CrcResponses == {m \o get_crc_7(m) : m \in {r \in RawResponses : Len(r) < MaxRespLen}}

Responses(self) ==
  {SomeBytes(b) : b \in RawResponses \cup CrcResponses}
    \cup (IF self.kind = "TicSerial" THEN {NoneResp} ELSE {})

RowsNamed(table, names) == {i \in 1..Len(table) : table[i].name \in names}

ReadVariables ==
  RowsNamed(TIC_VARIABLES,
            {"operation_state", "misc_flags", "error_status", "error_occured",
             "target_position", "current_position", "max_speed", "vin_voltage",
             "last_hp_driver_errors"})

ReadSettings ==
  RowsNamed(SETTINGS,
            {"control_mode", "never_sleep", "auto_homing", "auto_homing_forward",
             "vin_calibration", "serial_14bit_device_number",
             "serial_enable_alt_device_number", "scl_config", "scl_pin_function",
             "hp_fixed_off_time"})

(* direct block reads: offsets at the ends and around the 128 boundary *)
Offsets == {0, 7, 105, 127, 128, 255}

Lengths == {1, 2, 4}

DirectResponses(length) ==
  {SomeBytes(RespBytes(length, <<2, 0>>)),
   SomeBytes(RespBytes(length, <<2, 0>>) \o get_crc_7(RespBytes(length, <<2, 0>>)))}

---------------------------------------------------------------------------
(* Spec: one facade call on a newly constructed adapter of any kind and    *)
(* configuration (a TicUSB stands beside it); the channel answers a read   *)
(* with bytes of its choosing.  The adapters keep no state between calls,  *)
(* so every call starts from the constructed state.                        *)

Init ==
  /\ cfg \in {[t \in Tics |-> IF t = 1 THEN c ELSE TicUSB(t)] : c \in Configs(1)}
  /\ wire = [ch \in Chans |-> <<>>]
  /\ rx = [ch \in Chans |-> <<>>]
  /\ last = NoCall
  /\ calc = NoCalc

DoCommand ==
  /\ last = NoCall
  /\ \E t \in Tics, i \in 1..Len(COMMANDS) :
       \E value \in ArgsOf(COMMANDS[i].format) :
         Command(t, i, value) /\ UNCHANGED rx

DoGetVariable ==
  /\ last = NoCall
  /\ \E t \in Tics, i \in ReadVariables :
       \E resp \in Responses(cfg[t]) :
         GetVariable(t, i, resp) /\ UNCHANGED rx

DoGetSetting ==
  /\ last = NoCall
  /\ \E t \in Tics, i \in ReadSettings :
       \E resp \in Responses(cfg[t]) :
         GetSetting(t, i, resp) /\ UNCHANGED rx

DoBlockRead ==
  /\ last = NoCall
  /\ \E t \in Tics, offset \in Offsets, length \in Lengths :
       \E resp \in DirectResponses(length) :
         BlockRead(t, GET_SETTING_CMD, offset, length, resp) /\ UNCHANGED rx

Next == DoCommand \/ DoGetVariable \/ DoGetSetting \/ DoBlockRead

Spec == Init /\ [][Next]_vars

---------------------------------------------------------------------------
(* SpecSeq: two facade instances, each constructed on its own channel,     *)
(* called in any order and any number of times.  A channel holds the       *)
(* responses supplied to it and hands them out in order, one per read; a   *)
(* read of a channel that holds none yields no bytes.                      *)

MaxRx == 1

SeqConfigs(ch) == {TicUSB(ch), TicI2C(ch), TicSerial(ch, NoDeviceNumber, FALSE, FALSE)}

SeqCommands == RowsNamed(COMMANDS, {"set_target_position", "go_home", "energize"})

SeqArgsOf(format) ==
  CASE format = THIRTY_TWO_BITS -> {-99, 1}
    [] format = SEVEN_BITS      -> {1}
    [] OTHER                    -> {0}

SeqVariables == RowsNamed(TIC_VARIABLES, {"current_position"})

SeqSettings == RowsNamed(SETTINGS, {"serial_14bit_device_number"})

(* int_to_bytes(1, 4), int_to_bytes(2, 4), int_to_bytes(8, 1) *)
Supplies == {RespBytes(4, <<1, 0>>), RespBytes(4, <<2, 0>>), RespBytes(1, <<8, 0>>)}

SeqInit ==
  /\ cfg \in {[t \in Tics |-> IF t = 1 THEN c1 ELSE c2] :
                c1 \in SeqConfigs(1), c2 \in SeqConfigs(2)}
  /\ wire = [ch \in Chans |-> <<>>]
  /\ rx = [ch \in Chans |-> <<>>]
  /\ last = NoCall
  /\ calc = NoCalc

(* the channel's owner queues a response on it *)
Supply(ch, b) ==
  /\ Len(rx[ch]) < MaxRx
  /\ rx' = [rx EXCEPT ![ch] = Append(@, SomeBytes(b))]
  /\ UNCHANGED <<cfg, wire, last, calc>>

(* what a read of channel ch yields, and the channel after it *)
ChannelRead(ch) == IF rx[ch] = <<>> THEN SomeBytes(<<>>) ELSE Head(rx[ch])

Consume(ch) == rx' = [rx EXCEPT ![ch] = IF @ = <<>> THEN @ ELSE Tail(@)]

SeqSupply == \E ch \in Chans, b \in Supplies : Supply(ch, b)

SeqCommand ==
  \E t \in Tics, i \in SeqCommands :
    \E value \in SeqArgsOf(COMMANDS[i].format) :
      Command(t, i, value) /\ UNCHANGED rx

SeqGetVariable ==
  \E t \in Tics, i \in SeqVariables :
    GetVariable(t, i, ChannelRead(ChannelOf(t))) /\ Consume(ChannelOf(t))

SeqGetSetting ==
  \E t \in Tics, i \in SeqSettings :
    GetSetting(t, i, ChannelRead(ChannelOf(t))) /\ Consume(ChannelOf(t))

SeqNext == SeqSupply \/ SeqCommand \/ SeqGetVariable \/ SeqGetSetting

SpecSeq == SeqInit /\ [][SeqNext]_vars

---------------------------------------------------------------------------
(* Methods that make several block reads: Settings.get_serial_device_number, *)
(* get_serial_alt_device_number and get_all (ticlib.py 387-417) and          *)
(* TicBase.get_variables (1399-1407).  The recorded call (last) is the       *)
(* method's position: the block reads it has made and its local dict         *)
(* `result`; its status is "running" until it returns or raises.  One step   *)
(* is the method's next block read together with the statements up to the    *)
(* read after it.                                                            *)

(* one invocation of _block_read: its arguments, the response and the outcome *)
ReadRec(command_code, offset, length, format_response, resp, out) ==
  [code |-> command_code, offset |-> offset, length |-> length,
   fmt |-> format_response, resp |-> resp, status |-> out.status,
   message |-> out.message, ret |-> out.ret]

(* a step that keeps the items stored so far when the read fails *)
AfterRead_partial(call, command_code, offset, length, format_response, resp, out) ==
  [ops  |-> out.ops,
   call |-> [call EXCEPT !.reads = Append(@, ReadRec(command_code, offset, length,
                                                     format_response, resp, out)),
                         !.status = IF out.status = "ok" THEN "running" ELSE "error",
                         !.error = out.error, !.expected = out.expected,
                         !.got = out.got, !.ret = out.ret]]

(* the step that makes the block read whose outcome is out: the operations *)
(* it puts on the channel and the call after it; an exception leaves the   *)
(* method, and its local dict is gone                                      *)
AfterRead(call, command_code, offset, length, format_response, resp, out) ==
  [ops  |-> out.ops,
   call |-> [call EXCEPT !.reads = Append(@, ReadRec(command_code, offset, length,
                                                     format_response, resp, out)),
                         !.status = IF out.status = "ok" THEN "running" ELSE "error",
                         !.error = out.error, !.expected = out.expected,
                         !.got = out.got, !.ret = out.ret,
                         !.dict = IF out.status = "ok" THEN @ ELSE <<>>]]

(* an exception raised between two reads *)
Raise(step, exc) ==
  [step EXCEPT !.call.status = "error", !.call.error = exc, !.call.ret = NoVal,
               !.call.dict = <<>>]

(* result[name] = val: a dict holds one item per key, in insertion order *)
DictSet(dict, name, val) ==
  IF \E k \in 1..Len(dict) : dict[k].name = name
  THEN [k \in 1..Len(dict) |->
          IF dict[k].name = name THEN [name |-> name, val |-> val] ELSE dict[k]]
  ELSE Append(dict, [name |-> name, val |-> val])

(* result[name] = <the value the step produced>, when nothing was raised *)
StoreIn(step, name) ==
  IF step.call.status = "running"
  THEN [step EXCEPT !.call.dict = DictSet(@, name, step.call.ret)]
  ELSE step

(* return <the value the step produced> *)
ReturnValue(step) ==
  IF step.call.status = "running" THEN [step EXCEPT !.call.status = "ok"] ELSE step

(* return result *)
ReturnDict(step) ==
  IF step.call.status = "running"
  THEN [step EXCEPT !.call.status = "ok", !.call.ret = NoVal]
  ELSE step

(* a | b on values below 2^n *)
RECURSIVE OrBits(_, _, _)
OrBits(a, b, n) ==
  IF n = 0 THEN 0
  ELSE (IF a % 2 = 1 \/ b % 2 = 1 THEN 1 ELSE 0) + 2 * OrBits(a \div 2, b \div 2, n - 1)

(* The body shared by get_serial_device_number and                         *)
(* get_serial_alt_device_number, entered when `before` reads had been made *)
(* by the caller.  First step: lower = _block_read(.., lower_offset, 1).   *)
(* Second step: upper = _block_read(.., upper_offset, 1), the two          *)
(* bit_range(0, 6, .) calls and (lower & 0x7F) | ((upper & 0x7F) << 7).    *)
(* (out names the outcome of the read; the set holds the one step.)        *)
DeviceNumberStep(call, self, lower_offset, upper_offset, before, resp) ==
  IF Len(call.reads) = before
  THEN CHOOSE step \in
         {AfterRead(call, GET_SETTING_CMD, lower_offset, 1, FmtNone, resp, out) :
            out \in {block_read(self, GET_SETTING_CMD, lower_offset, 1, FmtNone, resp)}} :
         TRUE
  ELSE CHOOSE step \in
         {LET read  == AfterRead(call, GET_SETTING_CMD, upper_offset, 1, FmtNone, resp, out)
              lower == bit_range(0, 6, call.reads[before + 1].ret.bytes)
              upper == bit_range(0, 6, out.ret.bytes)
          IN  IF out.status # "ok" THEN read
              ELSE IF ~lower.ok THEN Raise(read, lower.exc)
              ELSE IF ~upper.ok THEN Raise(read, upper.exc)
              ELSE [read EXCEPT !.call.ret =
                      IntVal(Wide(0, OrBits(lower.val.lo % 128,
                                            (upper.val.lo % 128) * 128, 14)))] :
            out \in {block_read(self, GET_SETTING_CMD, upper_offset, 1, FmtNone, resp)}} :
         TRUE

(* get_serial_device_number reading the upper byte first *)
Settings_get_serial_device_number_upper_first(call, self, before, resp) ==
  DeviceNumberStep(call, self, 105, 7, before, resp)

Settings_get_serial_device_number(call, self, before, resp) ==
  DeviceNumberStep(call, self, 7, 105, before, resp)

Settings_get_serial_alt_device_number(call, self, before, resp) ==
  DeviceNumberStep(call, self, 106, 107, before, resp)

(* getattr(self, 'get_' + name): the attribute set last under that name by *)
(* the constructor's loop over the table                                   *)
Getter(table, name) ==
  table[CHOOSE i \in 1..Len(table) :
          table[i].name = name /\ \A j \in (i + 1)..Len(table) : table[j].name # name]

(* the get_<name> attributes of a TicBase and of its Settings, by row *)
VariableGetters ==
  [i \in 1..Len(TIC_VARIABLES) |-> Getter(TIC_VARIABLES, TIC_VARIABLES[i].name)]

SettingGetters == [i \in 1..Len(SETTINGS) |-> Getter(SETTINGS, SETTINGS[i].name)]

(* one pass of `for row in table: result[name] = getattr(self, 'get_' + name)()`, *)
(* for the row after those already read                                           *)
(* (out names the outcome of the read; the set holds the one step.)               *)
LoopPass(call, self, command_code, table, getters, resp) ==
  LET i   == Len(call.reads) + 1
      get == getters[i]
  IN  CHOOSE step \in
        {StoreIn(AfterRead(call, command_code, get.offset, get.length, get.fmt, resp, out),
                 table[i].name) :
           out \in {block_read(self, command_code, get.offset, get.length, get.fmt, resp)}} :
        TRUE

(* get_variables: the loop over VARIABLES, then return result *)
get_variables(call, self, resp) ==
  IF Len(call.reads) + 1 < Len(TIC_VARIABLES)
  THEN LoopPass(call, self, GET_VARIABLE_CMD, TIC_VARIABLES, VariableGetters, resp)
  ELSE ReturnDict(LoopPass(call, self, GET_VARIABLE_CMD, TIC_VARIABLES, VariableGetters,
                           resp))

(* get_all returning after the loop over SETTINGS *)
Settings_get_all_rows_only(call, self, resp) ==
  IF Len(call.reads) + 1 < Len(SETTINGS)
  THEN LoopPass(call, self, GET_SETTING_CMD, SETTINGS, SettingGetters, resp)
  ELSE ReturnDict(LoopPass(call, self, GET_SETTING_CMD, SETTINGS, SettingGetters, resp))

(* get_all: the loop over SETTINGS, the two device numbers, return result *)
Settings_get_all(call, self, resp) ==
  LET n == Len(SETTINGS)
      k == Len(call.reads)
  IN  IF k < n THEN LoopPass(call, self, GET_SETTING_CMD, SETTINGS, SettingGetters, resp)
      ELSE IF k = n THEN Settings_get_serial_device_number(call, self, n, resp)
      ELSE IF k = n + 1
      THEN StoreIn(Settings_get_serial_device_number(call, self, n, resp),
                   "serial_device_number")
      ELSE IF k = n + 2 THEN Settings_get_serial_alt_device_number(call, self, n + 2, resp)
      ELSE ReturnDict(StoreIn(Settings_get_serial_alt_device_number(call, self, n + 2, resp),
                              "serial_alt_device_number"))

---------------------------------------------------------------------------
(* SpecBulk: one call, on a newly constructed adapter of any kind and      *)
(* configuration, of a method that makes several block reads.  When the    *)
(* call begins the channel holds the responses it will give, one per read: *)
(* payloads of the requested lengths, one of them possibly replaced by an  *)
(* empty response.                                                         *)

(* bytes for the two device-number reads: the ends, single bits, and       *)
(* values with bit 7 set                                                   *)
DeviceBytes == {0, 1, 2, 4, 64, 127, 128, 129, 130, 254, 255}

(* answers with the k-th one replaced by an empty response; k = 0: none *)
Faulty(answers, k) ==
  [i \in 1..Len(answers) |-> IF i = k THEN SomeBytes(<<>>) ELSE answers[i]]

DeviceAnswers(self) ==
  {Faulty(<<Deliver(self, <<lo>>), Deliver(self, <<hi>>)>>, k) :
     lo \in DeviceBytes, hi \in DeviceBytes, k \in 0..2}

BulkSeeds == {<<0, 0>>, <<157, 255>>, <<8, 0>>}

(* the payload of the k-th read: its first byte depends on k *)
BulkPayload(k, length, s) ==
  [i \in 1..length |-> IF i = 1 THEN (s[1] + k) % 256 ELSE s[2]]

(* responses to the reads of table's rows followed by extra 1-byte reads *)
BulkAnswers(self, table, extra, s, k) ==
  Faulty([i \in 1..(Len(table) + extra) |->
            Deliver(self, BulkPayload(i, IF i <= Len(table) THEN table[i].length ELSE 1, s))],
         k)

(* which read is answered with no bytes: none, the first, the last ones *)
BulkFaults(n) == {0, 1, n - 4, n - 3, n - 1, n}

(* instance t enters the method op while its channel holds answers *)
Begin(t, op, answers) ==
  /\ last' = [NoCall EXCEPT !.tic = t, !.op = op, !.name = op, !.format = BLOCK_READ,
                            !.status = "running"]
  /\ rx' = [rx EXCEPT ![ChannelOf(t)] = answers]
  /\ UNCHANGED <<cfg, wire, calc>>

Running(op) == last.op = op /\ last.status = "running"

(* what the channel of the running call's instance yields to its next read *)
NextAnswer == ChannelRead(ChannelOf(last.tic))

(* the running call takes the step: its operations go to its instance's channel *)
Advance(step) ==
  /\ last' = step.call
  /\ wire' = [wire EXCEPT ![ChannelOf(last.tic)] = @ \o step.ops]
  /\ Consume(ChannelOf(last.tic))
  /\ UNCHANGED <<cfg, calc>>

(* tic.settings.get_serial_device_number() *)
DoGetSerialDeviceNumber ==
  \/ /\ last = NoCall
     /\ \E t \in Tics : \E answers \in DeviceAnswers(cfg[t]) :
          Begin(t, "get_serial_device_number", answers)
  \/ /\ Running("get_serial_device_number")
     /\ \E step \in {Settings_get_serial_device_number(last, Self, 0, NextAnswer)} :
          Advance(IF Len(last.reads) = 0 THEN step ELSE ReturnValue(step))

(* tic.settings.get_serial_alt_device_number() *)
DoGetSerialAltDeviceNumber ==
  \/ /\ last = NoCall
     /\ \E t \in Tics : \E answers \in DeviceAnswers(cfg[t]) :
          Begin(t, "get_serial_alt_device_number", answers)
  \/ /\ Running("get_serial_alt_device_number")
     /\ \E step \in {Settings_get_serial_alt_device_number(last, Self, 0, NextAnswer)} :
          Advance(IF Len(last.reads) = 0 THEN step ELSE ReturnValue(step))

(* tic.get_variables() *)
DoGetVariables ==
  \/ /\ last = NoCall
     /\ \E t \in Tics, s \in BulkSeeds, k \in BulkFaults(Len(TIC_VARIABLES)) :
          Begin(t, "get_variables", BulkAnswers(cfg[t], TIC_VARIABLES, 0, s, k))
  \/ /\ Running("get_variables")
     /\ \E step \in {get_variables(last, Self, NextAnswer)} : Advance(step)

(* tic.settings.get_all() *)
DoGetAll ==
  \/ /\ last = NoCall
     /\ \E t \in Tics, s \in BulkSeeds, k \in BulkFaults(Len(SETTINGS) + 4) :
          Begin(t, "get_all", BulkAnswers(cfg[t], SETTINGS, 4, s, k))
  \/ /\ Running("get_all")
     /\ \E step \in {Settings_get_all(last, Self, NextAnswer)} : Advance(step)

BulkNext ==
  DoGetSerialDeviceNumber \/ DoGetSerialAltDeviceNumber \/ DoGetVariables \/ DoGetAll

SpecBulk == Init /\ [][BulkNext]_vars

---------------------------------------------------------------------------
(* SpecShared: two callers use adapters bound to the same channel, with    *)
(* nothing outside the adapters serializing them.  On serial and I2C a     *)
(* block read is two channel steps, the write of the request and the read  *)
(* of the response, and the other caller may take a step between them; on  *)
(* USB it is the single control transfer.  The device holds a value for    *)
(* every offset and answers each request as it is written: a serial line   *)
(* carries the answers as one stream of bytes, read in order; an I2C read  *)
(* yields the bytes the latest request asked for.                          *)

SharedConfigs ==
  {TicSerial(1, NoDeviceNumber, FALSE, FALSE), TicSerial(1, 9, TRUE, TRUE),
   TicI2C(1), TicUSB(1)}

SharedRows ==
  RowsNamed(TIC_VARIABLES, {"error_status", "target_position", "current_position"})

(* the bytes the device holds at offset .. offset + length - 1 *)
DeviceValue(offset, length) == [i \in 1..length |-> (offset + i) % 256]

IdleCaller ==
  [pc |-> "idle", name |-> "", offset |-> 0, length |-> 0, fmt |-> FmtNone,
   wrote |-> 0, read |-> 0, out |-> Ok(<<>>, <<>>, NoVal)]

SharedInit ==
  /\ cfg \in {[t \in Tics |-> c] : c \in SharedConfigs}
  /\ wire = [ch \in Chans |-> <<>>]
  /\ rx = [ch \in Chans |-> <<>>]
  /\ last = [t \in Tics |-> IdleCaller]
  /\ calc = NoCalc

(* a caller bound to the other caller's lock: it waits while the other is  *)
(* between its write and its read                                          *)
MayEnter_locked(c) == \A d \in Tics \ {c} : last[d].pc # "sent"

(* _block_read and _send_command take no lock: a caller enters at any time *)
MayEnter(c) == TRUE

(* the number of bytes _read_response asks the port for *)
ReadLength(self, length) ==
  IF self.kind = "TicSerial" /\ self.crc_for_responses THEN length + 1 ELSE length

(* port.read(n) / backend.read(n): the first n bytes the channel holds *)
ChannelBytes(held, n) == SubSeq(held, 1, IF n < Len(held) THEN n ELSE Len(held))

(* the first statement of _block_read: the request is written *)
SharedRequest(c, i) ==
  LET self == cfg[c]
      ch   == ChannelOf(c)
      e    == TIC_VARIABLES[i]
      sent == IF self.kind = "TicSerial"
              THEN TicSerial_send_command(self, GET_VARIABLE_CMD, BLOCK_READ,
                                          SerialBlockRequest(e.offset, e.length))
              ELSE TicI2C_send_command(self, GET_VARIABLE_CMD, BLOCK_READ,
                                       <<e.offset, e.length>>)
      answer == Deliver(self, DeviceValue(e.offset, e.length)).bytes
  IN  /\ self.kind # "TicUSB"
      /\ last[c].pc = "idle"
      /\ MayEnter(c)
      /\ wire' = [wire EXCEPT ![ch] = @ \o sent]
      /\ rx' = [rx EXCEPT ![ch] = IF self.kind = "TicSerial" THEN @ \o answer ELSE answer]
      /\ last' = [last EXCEPT ![c] =
                    [IdleCaller EXCEPT !.pc = "sent", !.name = e.name,
                                       !.offset = e.offset, !.length = e.length,
                                       !.fmt = e.fmt, !.wrote = Len(wire[ch]) + 1]]
      /\ UNCHANGED <<cfg, calc>>

(* the rest of _block_read: the response is read, verified and formatted *)
SharedRead(c) ==
  LET self == cfg[c]
      ch   == ChannelOf(c)
      n    == ReadLength(self, last[c].length)
      resp == SomeBytes(ChannelBytes(rx[ch], n))
  IN  /\ self.kind # "TicUSB"
      /\ last[c].pc = "sent"
      /\ \E out \in {block_read(self, GET_VARIABLE_CMD, last[c].offset, last[c].length,
                                last[c].fmt, resp)} :
           /\ wire' = [wire EXCEPT ![ch] = @ \o Tail(out.ops)]
           /\ last' = [last EXCEPT ![c] =
                         [@ EXCEPT !.pc = "done", !.read = Len(wire[ch]) + 1,
                                   !.out = out]]
      /\ rx' = [rx EXCEPT ![ch] = IF self.kind = "TicSerial"
                                  THEN SubSeq(@, Len(resp.bytes) + 1, Len(@))
                                  ELSE @]
      /\ UNCHANGED <<cfg, calc>>

(* TicUSB._block_read: the request and its answer are one control transfer *)
SharedTransfer(c, i) ==
  LET self == cfg[c]
      ch   == ChannelOf(c)
      e    == TIC_VARIABLES[i]
  IN  /\ self.kind = "TicUSB"
      /\ last[c].pc = "idle"
      /\ MayEnter(c)
      /\ \E out \in {block_read(self, GET_VARIABLE_CMD, e.offset, e.length, e.fmt,
                                SomeBytes(DeviceValue(e.offset, e.length)))} :
           /\ wire' = [wire EXCEPT ![ch] = @ \o out.ops]
           /\ last' = [last EXCEPT ![c] =
                         [IdleCaller EXCEPT !.pc = "done", !.name = e.name,
                                            !.offset = e.offset, !.length = e.length,
                                            !.fmt = e.fmt, !.wrote = Len(wire[ch]) + 1,
                                            !.read = Len(wire[ch]) + 1, !.out = out]]
      /\ UNCHANGED <<cfg, rx, calc>>

DoSharedRequest == \E c \in Tics, i \in SharedRows : SharedRequest(c, i)

DoSharedRead == \E c \in Tics : SharedRead(c)

DoSharedTransfer == \E c \in Tics, i \in SharedRows : SharedTransfer(c, i)

SharedNext == DoSharedRequest \/ DoSharedRead \/ DoSharedTransfer

SpecShared == SharedInit /\ [][SharedNext]_vars

---------------------------------------------------------------------------
(* SpecCodec: the formatting functions and the CRC applied directly to an  *)
(* input.  The initial state holds the input: an integer v with the bytes  *)
(* that encode it, bytes with one or two bit indices, or a message with a  *)
(* bit position.  One application is made on it.                           *)

MaxMsgLen == 5

(* the length-byte little-endian two's-complement encoding of v *)
TwosComplement(v, length) == [i \in 1..length |-> Shr(v, 8 * (i - 1)) % 256]

(* 16-bit integers: the ends, around zero, every single bit set or cleared *)
Vals16 ==
  (-32768..-32700) \cup (-300..300) \cup (32700..32767)
    \cup {2 ^ k : k \in 0..14} \cup {-1 - 2 ^ k : k \in 0..14}

IntsOf(length) ==
  CASE length = 1 -> -128..127
    [] length = 2 -> Vals16
    [] length = 4 -> Vals32 \cup (-300..300)

(* bytes to take bits from: every single byte, and longer ones with bits   *)
(* set at both ends, in the middle, everywhere and nowhere                 *)
BitBytes ==
  {<<x>> : x \in 0..255}
    \cup {TwosComplement(v, 2) : v \in {0, 1, -1, 128, 256, -99, 21845, 32767, -32768}}
    \cup {TwosComplement(v, 4) :
            v \in {0, 1, -1, 128, 65536, 2 ^ 24, -99, 16711935, Int32Max, Int32Min}}

Messages ==
  {<<x>> : x \in 0..255} \cup {RespBytes(n, s) : n \in 2..MaxMsgLen, s \in Seeds}

(* an integer and the bytes that encode it *)
IntInput ==
  \E n \in Lengths : \E v \in IntsOf(n) :
    calc = [NoCalc EXCEPT !.kind = "int", !.v = v, !.value = TwosComplement(v, n)]

(* bytes and two bit indices within them, start <= end *)
BitInput ==
  \E value \in BitBytes :
    \E start \in 0..(8 * Len(value) - 1) : \E end \in start..(8 * Len(value) - 1) :
      calc = [NoCalc EXCEPT !.kind = "bits", !.value = value, !.a = start, !.b = end]

(* a message and a bit position within it *)
MsgInput ==
  \E m \in Messages : \E position \in 0..(8 * Len(m) - 1) :
    calc = [NoCalc EXCEPT !.kind = "msg", !.value = m, !.a = position]

CodecInit ==
  /\ cfg = [t \in Tics |-> TicUSB(t)]
  /\ wire = [ch \in Chans |-> <<>>]
  /\ rx = [ch \in Chans |-> <<>>]
  /\ last = NoCall
  /\ (IntInput \/ BitInput \/ MsgInput)

(* format_response(value) called with the function held by fmt *)
Apply(fmt) ==
  /\ calc.f = "none"
  /\ calc' = [calc EXCEPT !.f = fmt.f, !.out = ApplyFormat(fmt, calc.value)]
  /\ UNCHANGED <<cfg, wire, rx, last>>

ApplySignedInt == calc.kind = "int" /\ Apply(Fmt("signed_int", 0, 0))

ApplyUnsignedInt == calc.kind = "int" /\ Apply(Fmt("unsigned_int", 0, 0))

(* boolean takes one bit index *)
ApplyBoolean == calc.kind = "bits" /\ calc.a = calc.b /\ Apply(Fmt("boolean", calc.a, 0))

ApplyBitRange == calc.kind = "bits" /\ Apply(Fmt("bit_range", calc.a, calc.b))

ApplyCrc ==
  /\ calc.kind = "msg"
  /\ calc.f = "none"
  /\ calc' = [calc EXCEPT !.f = "get_crc_7",
                          !.out = Returned(BytesVal(get_crc_7(calc.value)))]
  /\ UNCHANGED <<cfg, wire, rx, last>>

CodecNext ==
  ApplySignedInt \/ ApplyUnsignedInt \/ ApplyBoolean \/ ApplyBitRange \/ ApplyCrc

SpecCodec == CodecInit /\ [][CodecNext]_vars

---------------------------------------------------------------------------
(* Properties.  They read the recorded call (last), the operations it made *)
(* (wire) and the constructed attributes (cfg).                            *)

Called == last.op # "init"

IsCommand == last.op = "command"

IsRead == last.op \in {"get_variable", "get_setting", "block_read"}

(* the operations made on the channel that instance was constructed on *)
OwnOps == wire[cfg[last.tic].chan]

OnSerial == Called /\ Self.kind = "TicSerial"

OnI2C == Called /\ Self.kind = "TicI2C"

OnUSB == Called /\ Self.kind = "TicUSB"

(* the bytes of the single write the call made *)
Frame == OwnOps[1].data

HeaderLen == IF Self.device_number = NoDeviceNumber THEN 1 ELSE 3

(* the frame's bytes after the header, the CRC byte excluded *)
Payload ==
  SubSeq(Frame, HeaderLen + 1, Len(Frame) - (IF Self.crc_for_commands THEN 1 ELSE 0))

(* C1: on USB, on I2C and on serial without response CRC, a block read of  *)
(* declared length L answered with n # L bytes fails with 'Expected to     *)
(* read L bytes, got n.' and returns no value.                             *)
C1_ShortRead ==
  (/\ IsRead
   /\ OnUSB \/ OnI2C \/ (OnSerial /\ ~Self.crc_for_responses)
   /\ ~last.resp.isNone
   /\ Len(last.resp.bytes) # last.length)
  => /\ last.status = "error"
     /\ last.error = "Expected to read {} bytes, got {}."
     /\ last.expected = last.length
     /\ last.got = Len(last.resp.bytes)
     /\ last.ret = NoVal

(* a 4-byte variable answered with 2 bytes over USB: 'Expected to read 4 bytes, got 2.' *)
C1_Witness ==
  /\ IsRead /\ OnUSB
  /\ last.name = "current_position"
  /\ Len(last.resp.bytes) = 2
  /\ last.status = "error" /\ last.expected = 4 /\ last.got = 2

(* what the channel instance t was constructed on would hand to a read now *)
OwnSupply(t) ==
  IF rx[cfg[t].chan] = <<>> THEN SomeBytes(<<>>) ELSE Head(rx[cfg[t].chan])

(* C2: with two instances, each on its own channel, in every interleaving  *)
(* of their calls each call's operations are made on the channel of the    *)
(* instance called and on no other, a read takes its bytes from that       *)
(* channel and leaves the other channel's untouched, and                   *)
(* get_current_position returns the number that channel supplied.          *)
C2_OwnChannel ==
  [][(last' # last \/ wire' # wire \/ \E ch \in Chans : Len(rx'[ch]) < Len(rx[ch]))
     => LET t   == last'.tic
            own == cfg[t].chan
        IN  /\ \A ch \in Chans \ {own} : wire'[ch] = <<>> /\ rx'[ch] = rx[ch]
            /\ wire'[own] # <<>>
            /\ last'.op \in {"get_variable", "get_setting"}
                 => /\ last'.resp = OwnSupply(t)
                    /\ rx'[own] = (IF rx[own] = <<>> THEN <<>> ELSE Tail(rx[own]))
                    /\ (last'.name = "current_position" /\ Len(OwnSupply(t).bytes) = 4)
                         => last'.ret = IntVal(signed_int(OwnSupply(t).bytes))]_vars

(* two TicUSB instances: handle 1 answered 1 to get_current_position on    *)
(* instance 1 while handle 2 holds the answer 2                            *)
C2_Witness ==
  /\ cfg[1].kind = "TicUSB" /\ cfg[2].kind = "TicUSB"
  /\ last.tic = 1 /\ last.name = "current_position"
  /\ last.status = "ok" /\ last.ret = IntVal(Wide(0, 1))
  /\ OwnOps = <<CtrlOp(192, 161, 0, 34, 4)>>
  /\ rx[2] = <<SomeBytes(<<2, 0, 0, 0>>)>>

(* C3: over USB every command is exactly one control transfer              *)
(* (0x40, wire_code, value16, index16, 0): value16 = index16 = 0 for a     *)
(* quick command; value16 = n, index16 = 0 for a 7-bit command;            *)
(* value16 = v mod 2^16, index16 = floor(v / 2^16) mod 2^16 for a 32-bit   *)
(* command.                                                                *)
C3_UsbCommand ==
  (IsCommand /\ OnUSB)
  => LET v       == last.value
         value16 == CASE last.format = QUICK           -> 0
                      [] last.format = SEVEN_BITS      -> v
                      [] last.format = THIRTY_TWO_BITS -> v % 65536
         index16 == CASE last.format = THIRTY_TWO_BITS -> (v \div 65536) % 65536
                      [] OTHER                         -> 0
     IN  /\ OwnOps = <<CtrlOp(64, last.code, value16, index16, 0)>>
         /\ (last.name = "set_target_position" /\ v = -99)
              => OwnOps[1].data = <<64, 224, 65437, 65535, 0>>
         /\ (last.name = "go_home" /\ v = 1) => OwnOps[1].data = <<64, 151, 1, 0, 0>>
         /\ last.name = "energize" => OwnOps[1].data = <<64, 133, 0, 0, 0>>

(* set_target_position(-99) over USB has been sent *)
C3_Witness ==
  /\ IsCommand /\ OnUSB
  /\ last.name = "set_target_position" /\ last.value = -99
  /\ OwnOps[1].data = <<64, 224, 65437, 65535, 0>>

PayloadLen(format) ==
  CASE format = QUICK           -> 0
    [] format = SEVEN_BITS      -> 1
    [] format = THIRTY_TWO_BITS -> 5
    [] format = BLOCK_READ      -> 2

(* C4: every serial frame is the header ([0xAA, device_number,             *)
(* wire_code & 0x7F] with a device number, else [wire_code]), then the     *)
(* payload of the command's format, then, exactly when commands-CRC is     *)
(* enabled, one byte equal to crc7 of all preceding bytes; the frame goes  *)
(* out in one write.                                                       *)
C4_SerialFrame ==
  OnSerial
  => LET header == IF Self.device_number = NoDeviceNumber
                   THEN <<last.code>>
                   ELSE <<170, Self.device_number, last.code % 128>>
         body   == Len(header) + PayloadLen(last.format)
     IN  /\ Len(SelectSeq(OwnOps, LAMBDA o : o.op = "write")) = 1
         /\ OwnOps[1].op = "write"
         /\ SubSeq(Frame, 1, Len(header)) = header
         /\ Len(Frame) = body + (IF Self.crc_for_commands THEN 1 ELSE 0)
         /\ Self.crc_for_commands
              => <<Frame[Len(Frame)]>> = get_crc_7(SubSeq(Frame, 1, body))

(* an addressed 32-bit command with its CRC byte: 3 + 5 + 1 bytes *)
C4_Witness ==
  /\ OnSerial /\ IsCommand
  /\ Self.device_number = 9 /\ Self.crc_for_commands
  /\ last.format = THIRTY_TWO_BITS
  /\ Len(Frame) = 9

(* the five payload bytes of a 32-bit command sent over serial *)
Serial32 == OnSerial /\ IsCommand /\ last.format = THIRTY_TWO_BITS

(* bit 31 of the two's complement of a 32-bit value is its sign *)
Bit31(v) == IF v < 0 THEN 1 ELSE 0

(* C5 as stated: byte 0 has bit0 = bit 7 of v, bit1 = bit 14, bit2 = bit   *)
(* 21, bit3 = bit 28 (bits 4..7 clear); bytes 1..4 carry value bits        *)
(* [0:7), [7:14), [14:21), [21:28).                                        *)
C5_AsStated ==
  Serial32
  => LET v == last.value
         p == Payload
     IN  /\ Len(p) = 5
         /\ p[1] = Bit(v, 7) + 2 * Bit(v, 14) + 4 * Bit(v, 21) + 8 * Bit(v, 28)
         /\ p[2] = Shr(v, 0) % 128
         /\ p[3] = Shr(v, 7) % 128
         /\ p[4] = Shr(v, 14) % 128
         /\ p[5] = Shr(v, 21) % 128

(* C5 amended: the payload is exactly five bytes; byte 0 has bit0 = bit 7  *)
(* of v, bit1 = bit 15, bit2 = bit 23, bit3 = bit 31 (bits 4..7 clear);    *)
(* bytes 1..4 carry value bits [0:7), [8:15), [16:23), [24:31): the low    *)
(* seven bits of each of the value's four bytes.                           *)
C5_SerialPayload32 ==
  Serial32
  => LET v == last.value
         p == Payload
     IN  /\ Len(p) = 5
         /\ p[1] = Bit(v, 7) + 2 * Bit(v, 15) + 4 * Bit(v, 23) + 8 * Bit31(v)
         /\ p[2] = Shr(v, 0) % 128
         /\ p[3] = Shr(v, 8) % 128
         /\ p[4] = Shr(v, 16) % 128
         /\ p[5] = Shr(v, 24) % 128

(* a value with only bit 15 set has been sent: it shows in bit 1 of byte 0 *)
C5_Witness ==
  /\ Serial32 /\ last.value = 2 ^ 15
  /\ Payload = <<2, 0, 0, 0, 0>>

(* C6: in a serial frame carrying a 32-bit value, each of the five payload *)
(* bytes, and the CRC byte when commands-CRC is enabled, is below 0x80;    *)
(* crc7 of any byte sequence is in 0..127.                                 *)
C6_SevenBitClean ==
  /\ Serial32
       => /\ \A i \in 1..5 : Frame[HeaderLen + i] \in 0..127
          /\ Self.crc_for_commands => Frame[Len(Frame)] \in 0..127
  /\ (OnSerial /\ Self.crc_for_commands)
       => get_crc_7(SubSeq(Frame, 1, Len(Frame) - 1))[1] \in 0..127
  /\ (IsRead /\ ~last.resp.isNone) => get_crc_7(last.resp.bytes)[1] \in 0..127

(* -1 (every bit set) has been sent with a CRC byte *)
C6_Witness ==
  /\ Serial32 /\ last.value = -1 /\ Self.crc_for_commands
  /\ Payload = <<15, 127, 127, 127, 127>>

(* C7: a serial block read of offset o in 0..255 and length L in {1,2,4}   *)
(* sends, after the command byte, [o, L] when o < 128 and                  *)
(* [o - 128, L | 0x40] when o >= 128; both bytes are below 0x80 and (o, L) *)
(* is recovered from them.                                                 *)
C7_SerialBlockRequest ==
  (OnSerial /\ IsRead)
  => LET o == last.offset
         L == last.length
         p == Payload
     IN  /\ o \in 0..255 /\ L \in {1, 2, 4}
         /\ p = IF o < 128 THEN <<o, L>> ELSE <<o - 128, L + 64>>
         /\ p[1] \in 0..127 /\ p[2] \in 0..127
         /\ o = p[1] + (IF p[2] >= 64 THEN 128 ELSE 0)
         /\ L = p[2] % 64

(* a read at offset 255 has been requested *)
C7_Witness ==
  /\ OnSerial /\ IsRead /\ last.offset = 255 /\ last.length = 1
  /\ Payload = <<127, 65>>

(* C8: with response CRC enabled a block read of length L asks for exactly *)
(* L + 1 bytes; when L + 1 bytes arrive the first L are accepted exactly   *)
(* when the last byte is crc7 of them, and are then the message returned;  *)
(* on a mismatch the read fails with 'Response CRC check failed' and       *)
(* returns no value.                                                       *)
C8_ResponseCrc ==
  (OnSerial /\ IsRead /\ Self.crc_for_responses)
  => LET L       == last.length
         r       == last.resp.bytes
         message == SubSeq(r, 1, L)
     IN  /\ Len(OwnOps) = 2
         /\ OwnOps[2] = ReadOp(L + 1)
         /\ (~last.resp.isNone /\ Len(r) = L + 1)
              => /\ last.status = "ok" <=> <<r[L + 1]>> = get_crc_7(message)
                 /\ last.status = "ok" => last.message = message
                 /\ last.status # "ok"
                      => /\ last.error = "Response CRC check failed"
                         /\ last.ret = NoVal

(* a message followed by its crc7 has been accepted *)
C8_Witness ==
  /\ OnSerial /\ IsRead /\ Self.crc_for_responses
  /\ last.length = 4
  /\ last.resp.bytes = <<157, 255, 255, 255>> \o get_crc_7(<<157, 255, 255, 255>>)
  /\ last.status = "ok" /\ last.message = <<157, 255, 255, 255>>

(* a message followed by a wrong byte has been rejected *)
C8_WitnessMismatch ==
  /\ OnSerial /\ IsRead /\ Self.crc_for_responses
  /\ Len(last.resp.bytes) = last.length + 1
  /\ last.error = "Response CRC check failed"

(* C9: with response CRC enabled, a response of fewer than L + 1 bytes     *)
(* fails with 'Response does not contain CRC byte', never with the CRC     *)
(* mismatch error, and returns no value.                                   *)
C9_MissingCrcByte ==
  (/\ OnSerial /\ IsRead /\ Self.crc_for_responses
   /\ ~last.resp.isNone
   /\ Len(last.resp.bytes) < last.length + 1)
  => /\ last.status = "error"
     /\ last.error = "Response does not contain CRC byte"
     /\ last.error # "Response CRC check failed"
     /\ last.ret = NoVal

(* a response of exactly L bytes, CRC expected *)
C9_Witness ==
  /\ OnSerial /\ IsRead /\ Self.crc_for_responses
  /\ last.length = 4 /\ Len(last.resp.bytes) = 4
  /\ last.error = "Response does not contain CRC byte"

(* C10: every I2C command is a single write of [wire_code] and the         *)
(* payload, no address byte and no CRC byte: nothing for a quick command,  *)
(* one byte for a 7-bit command, four bytes holding v mod 2^32             *)
(* little-endian for a 32-bit command.                                     *)
C10_I2CCommand ==
  (OnI2C /\ IsCommand)
  => LET v == last.value
         f == Frame
     IN  /\ Len(OwnOps) = 1 /\ OwnOps[1].op = "write"
         /\ f[1] = last.code
         /\ last.format = QUICK => f = <<last.code>>
         /\ last.format = SEVEN_BITS => f = <<last.code, v>>
         /\ last.format = THIRTY_TWO_BITS
              => /\ Len(f) = 5
                 /\ \A i \in 2..5 : f[i] \in 0..255
                 /\ v = f[2] + 256 * f[3] + 65536 * f[4]
                          + 16777216 * (IF f[5] >= 128 THEN f[5] - 256 ELSE f[5])

(* -99 has been sent over I2C *)
C10_Witness ==
  /\ OnI2C /\ IsCommand /\ last.name = "set_target_position" /\ last.value = -99
  /\ Frame = <<224, 157, 255, 255, 255>>
---------------------------------------------------------------------------
(* C11: an I2C block read of offset o and length L first writes exactly    *)
(* the three bytes [wire_code, o, L], the offset unmodified also when it   *)
(* is 128 or more, and then makes one bus read of exactly L bytes; the     *)
(* write comes before the read and nothing else is done on the bus.        *)
C11_I2CBlockRead ==
  (OnI2C /\ IsRead) =>
    /\ Len(OwnOps) = 2
    /\ OwnOps[1] = WriteOp(<<last.code, last.offset, last.length>>)
    /\ OwnOps[2] = ReadOp(last.length)
    /\ last.op = "get_variable" => OwnOps[1].data[1] = 161
    /\ last.op = "get_setting" => OwnOps[1].data[1] = 168

C11_Witness ==
  /\ OnI2C /\ IsRead /\ last.status = "ok"
  /\ last.offset >= 128
  /\ OwnOps = <<WriteOp(<<168, 255, 4>>), ReadOp(4)>>

(* C12: a USB block read of offset o and length L is exactly one inbound   *)
(* control transfer (0xC0, wire_code, 0, o, L), with wire_code 0xA1 for a  *)
(* variable and 0xA8 for a setting; no outbound transfer is made.          *)
C12_UsbBlockRead ==
  (OnUSB /\ IsRead) =>
    /\ OwnOps = <<CtrlOp(192, last.code, 0, last.offset, last.length)>>
    /\ last.op = "get_variable" => OwnOps[1].data[2] = 161
    /\ last.op = "get_setting" => OwnOps[1].data[2] = 168
    /\ \A k \in 1..Len(OwnOps) : OwnOps[k].data[1] # 64

C12_Witness ==
  /\ OnUSB /\ last.op = "get_variable" /\ last.name = "current_position"
  /\ last.status = "ok"
  /\ OwnOps = <<CtrlOp(192, 161, 0, 34, 4)>>

(* C13: for the same variable or setting and the same returned payload of  *)
(* the declared length, the serial, I2C and USB adapters, however          *)
(* constructed, return the same result: the payload bytes unchanged when   *)
(* the row holds no formatting function, the formatted payload otherwise.  *)
C13_SameResult ==
  (IsRead /\ last.status = "ok") =>
    /\ Len(last.message) = last.length
    /\ last.ret = IF last.fmt.f = "None"
                  THEN BytesVal(last.message)
                  ELSE ApplyFormat(last.fmt, last.message).val
    /\ \A c \in Configs(1) :
         LET out == block_read(c, last.code, last.offset, last.length, last.fmt,
                               Deliver(c, last.message))
         IN  out.status = "ok" /\ out.ret = last.ret

C13_Witness ==
  /\ OnI2C /\ last.op = "get_variable" /\ last.name = "target_position"
  /\ last.status = "ok"
  /\ last.message = <<157, 255, 255, 255>>
  /\ last.ret = IntVal(Wide(-1, 65437))

---------------------------------------------------------------------------
(* Properties of the formatting functions and of the CRC.  They read the   *)
(* recorded application (calc).                                            *)

Applied(f) == calc.f = f

(* -2^(8n-1) <= v < 2^(8n-1), written without 2^31 *)
Representable(v, n) ==
  /\ v >= (0 - 2 ^ (8 * n - 2)) * 2
  /\ v <= (2 ^ (8 * n - 2) - 1) * 2 + 1

(* the integer a formatting function returned *)
OutInt == calc.out.val.hi * 65536 + calc.out.val.lo

(* bit i of the integer the bytes hold in little-endian order *)
BitOfBytes(value, i) == Bit(ByteAt(value, i \div 8 + 1), i % 8)

(* C14: for n in {1, 2, 4} and -2^(8n-1) <= v < 2^(8n-1), signed_int of    *)
(* the n-byte little-endian two's-complement encoding of v returns v; the  *)
(* 4-byte encoding of -99 decodes to -99.                                  *)
C14_SignedRoundTrip ==
  (/\ Applied("signed_int")
   /\ Len(calc.value) \in {1, 2, 4}
   /\ Representable(calc.v, Len(calc.value))
   /\ calc.value = TwosComplement(calc.v, Len(calc.value))) =>
    /\ calc.out.ok
    /\ calc.out.val.k = "int"
    /\ OutInt = calc.v
    /\ calc.value = <<157, 255, 255, 255>> => OutInt = -99

C14_Witness ==
  /\ Applied("signed_int")
  /\ calc.v = -99
  /\ calc.value = <<157, 255, 255, 255>>
  /\ OutInt = -99

(* C15: for bytes b of length 1, 2 or 4, unsigned_int(b) is the sum of     *)
(* b[i] * 256^i: it is not negative, below 256^n, and its base-256 digits  *)
(* are the bytes in order; the 4-byte encoding of -99 gives 4294967197     *)
(* (65535 * 65536 + 65437).                                                *)
C15_UnsignedLittleEndian ==
  (Applied("unsigned_int") /\ Len(calc.value) \in {1, 2, 4}) =>
    /\ calc.out.ok
    /\ calc.out.val.k = "int"
    /\ calc.out.val.lo \in 0..65535
    /\ calc.out.val.hi \in 0..65535
    /\ calc.out.val.lo % 256 = ByteAt(calc.value, 1)
    /\ calc.out.val.lo \div 256 = ByteAt(calc.value, 2)
    /\ calc.out.val.hi % 256 = ByteAt(calc.value, 3)
    /\ calc.out.val.hi \div 256 = ByteAt(calc.value, 4)
    /\ calc.value = TwosComplement(-99, 4) => calc.out.val = IntVal(Wide(65535, 65437))

C15_Witness ==
  /\ Applied("unsigned_int")
  /\ calc.v = -99
  /\ calc.value = <<157, 255, 255, 255>>
  /\ calc.out.val = IntVal(Wide(65535, 65437))

(* C16: for bytes b of length 1, 2 or 4 and 0 <= i < 8n, boolean(i, b) is  *)
(* true exactly when bit i of the little-endian integer of b is set; bit 3 *)
(* (serial_14bit_device_number) is false for 0b00000100 and true for       *)
(* 0b00001000.                                                             *)
C16_BooleanIsBit ==
  (/\ Applied("boolean")
   /\ Len(calc.value) \in {1, 2, 4}
   /\ calc.a \in 0..(8 * Len(calc.value) - 1)) =>
    /\ calc.out.ok
    /\ calc.out.val.k = "bool"
    /\ calc.out.val.flag <=> (BitOfBytes(calc.value, calc.a) = 1)
    /\ (calc.value = <<4>> /\ calc.a = 3) => ~calc.out.val.flag
    /\ (calc.value = <<8>> /\ calc.a = 3) => calc.out.val.flag

C16_Witness ==
  /\ Applied("boolean")
  /\ calc.value = <<0, 0, 0, 128>>
  /\ calc.a = 31
  /\ calc.out.val.flag

(* C17: for bytes b of length 1, 2 or 4 and 0 <= start <= end < 8n,        *)
(* bit_range(start, end, b) returns a value, it does not fail, and the     *)
(* value is (unsigned_int(b) >> start) & ((1 << (end - start + 1)) - 1):   *)
(* bit j of it is bit start + j of b up to j = end - start, and no higher  *)
(* bit is set.                                                             *)
C17_AsStated ==
  (/\ Applied("bit_range")
   /\ Len(calc.value) \in {1, 2, 4}
   /\ 0 <= calc.a /\ calc.a <= calc.b /\ calc.b < 8 * Len(calc.value)) =>
    /\ calc.out.ok
    /\ calc.out.val.k = "int"
    /\ \A j \in 0..31 :
         WideBit(calc.out.val, j) =
           IF j <= calc.b - calc.a THEN BitOfBytes(calc.value, calc.a + j) ELSE 0

(* what bit_range does: it fails exactly when no bit at or above start is  *)
(* set and start is not 0, and returns the stated value otherwise          *)
C17_Observed ==
  (/\ Applied("bit_range")
   /\ Len(calc.value) \in {1, 2, 4}
   /\ 0 <= calc.a /\ calc.a <= calc.b /\ calc.b < 8 * Len(calc.value)) =>
    /\ calc.out.ok <=>
         (calc.a = 0 \/ \E i \in calc.a..31 : BitOfBytes(calc.value, i) = 1)
    /\ ~calc.out.ok => calc.out.exc = "ValueError"
    /\ calc.out.ok =>
         \A j \in 0..31 :
           WideBit(calc.out.val, j) =
             IF j <= calc.b - calc.a THEN BitOfBytes(calc.value, calc.a + j) ELSE 0

C17_Failing ==
  /\ Applied("bit_range")
  /\ calc.value = <<1>> /\ calc.a = 4 /\ calc.b = 7
  /\ calc.out = Raised("ValueError")

(* the message with the bit at position p flipped *)
FlipBit(message, p) ==
  [message EXCEPT ![p \div 8 + 1] = Xor(@, 2 ^ (p % 8))]

(* C19: for every message of at least one byte and every bit position in   *)
(* it, the message with that one bit flipped has a CRC different from the  *)
(* CRC of the message.                                                     *)
C19_SingleBitFlip ==
  (Applied("get_crc_7") /\ Len(calc.value) >= 1
     /\ calc.a \in 0..(8 * Len(calc.value) - 1)) =>
    /\ calc.out.val.bytes = get_crc_7(calc.value)
    /\ get_crc_7(FlipBit(calc.value, calc.a)) # calc.out.val.bytes

C19_Witness ==
  /\ Applied("get_crc_7")
  /\ Len(calc.value) = MaxMsgLen
  /\ calc.a = 8 * MaxMsgLen - 1
  /\ get_crc_7(FlipBit(calc.value, calc.a)) # calc.out.val.bytes

---------------------------------------------------------------------------
(* Properties of the methods that make several reads.  They read the       *)
(* recorded call (last): its block reads in order and the dict returned.   *)

Returns(op) == last.op = op /\ last.status = "ok"

(* read k of the call was the 1-byte setting read of offset, unformatted *)
IsByteRead(k, offset) ==
  /\ last.reads[k].code = 168
  /\ last.reads[k].offset = offset
  /\ last.reads[k].length = 1
  /\ last.reads[k].fmt = FmtNone
  /\ last.reads[k].ret = BytesVal(last.reads[k].message)
  /\ Len(last.reads[k].message) = 1

(* (lo mod 128) + 128 * (hi mod 128) of the bytes reads k and k + 1 returned *)
Combined(k) ==
  IntVal(Wide(0, (last.reads[k].message[1] % 128)
                   + 128 * (last.reads[k + 1].message[1] % 128)))

(* the operations on the channel are those of the block reads, in order *)
OpsOfReads ==
  /\ OnUSB =>
       /\ Len(OwnOps) = Len(last.reads)
       /\ \A k \in 1..Len(last.reads) :
            OwnOps[k] = CtrlOp(192, last.reads[k].code, 0, last.reads[k].offset,
                               last.reads[k].length)
  /\ ~OnUSB =>
       /\ Len(OwnOps) = 2 * Len(last.reads)
       /\ \A k \in 1..Len(last.reads) :
            OwnOps[2 * k - 1].op = "write" /\ OwnOps[2 * k] = ReadOp(OwnOps[2 * k].n)
  /\ OnI2C =>
       \A k \in 1..Len(last.reads) :
         OwnOps[2 * k - 1].data = <<last.reads[k].code, last.reads[k].offset,
                                    last.reads[k].length>>

(* C18: get_serial_device_number makes two 1-byte setting reads, offset    *)
(* 0x07 then 0x69, and returns (lo mod 128) + 128 * (hi mod 128) for the   *)
(* bytes lo, hi they return; get_serial_alt_device_number does the same    *)
(* with offsets 0x6A then 0x6B.  Bytes 0b00000010 and 0b00000100 give      *)
(* 0b00001000000010 = 514.                                                 *)
C18_DeviceNumber ==
  /\ Returns("get_serial_device_number") =>
       /\ Len(last.reads) = 2 /\ IsByteRead(1, 7) /\ IsByteRead(2, 105)
       /\ OpsOfReads
       /\ last.ret = Combined(1)
       /\ (last.reads[1].message = <<2>> /\ last.reads[2].message = <<4>>)
            => last.ret = IntVal(Wide(0, 514))
  /\ Returns("get_serial_alt_device_number") =>
       /\ Len(last.reads) = 2 /\ IsByteRead(1, 106) /\ IsByteRead(2, 107)
       /\ OpsOfReads
       /\ last.ret = Combined(1)
       /\ (last.reads[1].message = <<2>> /\ last.reads[2].message = <<4>>)
            => last.ret = IntVal(Wide(0, 514))

C18_Witness ==
  /\ Returns("get_serial_device_number")
  /\ OnUSB
  /\ last.reads[1].message = <<130>> /\ last.reads[2].message = <<255>>
  /\ last.ret = IntVal(Wide(0, 2 + 128 * 127))
  /\ OwnOps = <<CtrlOp(192, 168, 0, 7, 1), CtrlOp(192, 168, 0, 105, 1)>>

(* the call read the rows of table in table order, one block read each,    *)
(* and the dict holds each row's name with the value of its own read       *)
RowsRead(table, command_code) ==
  /\ Len(last.reads) >= Len(table)
  /\ Len(last.dict) >= Len(table)
  /\ \A k \in 1..Len(table) :
       /\ last.reads[k].code = command_code
       /\ last.reads[k].offset = table[k].offset
       /\ last.reads[k].length = table[k].length
       /\ last.reads[k].fmt = table[k].fmt
       /\ last.dict[k].name = table[k].name
       /\ last.dict[k].val = last.reads[k].ret

(* the keys of the returned dict, none of them twice *)
KeysAre(names) ==
  /\ {last.dict[k].name : k \in 1..Len(last.dict)} = names
  /\ Len(last.dict) = Cardinality(names)

NamesOf(table) == {table[k].name : k \in 1..Len(table)}

(* C20: get_variables makes exactly one block read per row of the variable *)
(* table, in table order, and returns a dict whose keys are exactly the    *)
(* variable names, each with the value of its own read; settings.get_all   *)
(* does the same for the setting table and adds exactly the keys           *)
(* serial_device_number and serial_alt_device_number, each made from two   *)
(* further 1-byte reads.                                                   *)
C20_BulkReads ==
  /\ Returns("get_variables") =>
       /\ Len(last.reads) = Len(TIC_VARIABLES)
       /\ RowsRead(TIC_VARIABLES, 161)
       /\ KeysAre(NamesOf(TIC_VARIABLES))
       /\ OpsOfReads
  /\ Returns("get_all") =>
       /\ Len(last.reads) = Len(SETTINGS) + 4
       /\ RowsRead(SETTINGS, 168)
       /\ KeysAre(NamesOf(SETTINGS)
                    \cup {"serial_device_number", "serial_alt_device_number"})
       /\ Cardinality(NamesOf(SETTINGS)) = Len(SETTINGS)
       /\ OpsOfReads
       /\ LET n == Len(SETTINGS)
          IN  /\ IsByteRead(n + 1, 7) /\ IsByteRead(n + 2, 105)
              /\ IsByteRead(n + 3, 106) /\ IsByteRead(n + 4, 107)
              /\ last.dict[n + 1] = [name |-> "serial_device_number",
                                     val |-> Combined(n + 1)]
              /\ last.dict[n + 2] = [name |-> "serial_alt_device_number",
                                     val |-> Combined(n + 3)]

C20_Witness ==
  /\ Returns("get_all")
  /\ OnSerial /\ Self.crc_for_responses
  /\ Len(last.reads) = 91
  /\ Len(last.dict) = 89
  /\ last.dict[89].name = "serial_alt_device_number"
  /\ last.dict[89].val = Combined(90)

---------------------------------------------------------------------------
(* Properties of the tables.                                               *)

LengthsIn(table) == \A i \in 1..Len(table) : table[i].length \in {1, 2, 4}

OffsetsUnique(table) ==
  \A i, j \in 1..Len(table) : table[i].offset = table[j].offset => i = j

NamesUnique(table) ==
  \A i, j \in 1..Len(table) : table[i].name = table[j].name => i = j

(* the rows of table that share their offset with another row *)
SharingRows(table) ==
  {i \in 1..Len(table) :
     \E j \in 1..Len(table) : j # i /\ table[j].offset = table[i].offset}

(* the rows of table at the given offset *)
RowsAt(table, offset) == {i \in 1..Len(table) : table[i].offset = offset}

VariablesWellFormed ==
  LengthsIn(TIC_VARIABLES) /\ OffsetsUnique(TIC_VARIABLES) /\ NamesUnique(TIC_VARIABLES)

SettingsWellFormed ==
  /\ LengthsIn(SETTINGS) /\ NamesUnique(SETTINGS)
  /\ \A i \in SharingRows(SETTINGS) : SETTINGS[i].length = 1

(* C21 as stated: every row of the variable table and of the setting table *)
(* has a length in {1, 2, 4}, and within each table no two rows have the   *)
(* same offset: the row a read uses is the only row at its offset.         *)
C21_AsStated ==
  /\ last.op \in {"get_variable", "get_setting"} => last.length \in {1, 2, 4}
  /\ last.op = "get_variable" => Cardinality(RowsAt(TIC_VARIABLES, last.offset)) = 1
  /\ last.op = "get_setting" => Cardinality(RowsAt(SETTINGS, last.offset)) = 1

(* C21: every row of both tables has a length in {1, 2, 4}; no two rows of *)
(* the variable table have the same offset; names are unique within each   *)
(* table; rows of the setting table do share offsets, and those that do    *)
(* are 1-byte rows, so a read of any of them requests the same one byte.   *)
C21_Tables ==
  /\ VariablesWellFormed /\ SettingsWellFormed
  /\ last.op \in {"get_variable", "get_setting"} => last.length \in {1, 2, 4}
  /\ last.op = "get_variable" => Cardinality(RowsAt(TIC_VARIABLES, last.offset)) = 1
  /\ last.op = "get_setting" =>
       \A i \in RowsAt(SETTINGS, last.offset) :
         SETTINGS[i].name # last.name => SETTINGS[i].length = 1 /\ last.length = 1

C21_Witness ==
  /\ last.op = "get_setting" /\ last.name = "auto_homing" /\ last.status = "ok"
  /\ last.offset = 2
  /\ \E i \in SharingRows(SETTINGS) :
       SETTINGS[i].name = "never_sleep" /\ SETTINGS[i].offset = last.offset

---------------------------------------------------------------------------
(* set_current_limit.                                                      *)

CurrentLimit ==
  IsCommand /\ last.name = "set_current_limit" /\ last.value \in 0..127

(* C22 as stated: set_current_limit(n) is sent as command 0x91 in the      *)
(* 7-bit write format: on serial and I2C the payload after the command     *)
(* byte is the one byte n, on USB the control transfer is                  *)
(* (0x40, 0x91, n, 0, 0), for every n in 0..127.                           *)
C22_AsStated ==
  CurrentLimit
  => /\ last.code = 145
     /\ OnSerial => Payload = <<last.value>>
     /\ OnI2C => Frame = <<145, last.value>>
     /\ OnUSB => OwnOps = <<CtrlOp(64, 145, last.value, 0, 0)>>

(* what the table row makes of it: the 32-bit write format, five payload   *)
(* bytes on serial and four value bytes on I2C; the USB transfer is the    *)
(* stated one, because the upper half of a value below 128 is 0.           *)
C22_Observed ==
  CurrentLimit
  => /\ last.code = 145 /\ last.format = THIRTY_TWO_BITS
     /\ OnSerial => Payload = <<0, last.value, 0, 0, 0>>
     /\ OnI2C => Frame = <<145, last.value, 0, 0, 0>>
     /\ OnUSB => OwnOps = <<CtrlOp(64, 145, last.value, 0, 0)>>

(* set_current_limit(64) has been sent on a serial line *)
C22_Failing ==
  /\ CurrentLimit /\ OnSerial /\ last.value = 64
  /\ Payload = <<0, 64, 0, 0, 0>>

---------------------------------------------------------------------------
(* settings.get_auto_homing_forward.                                       *)

HomingForward == last.op = "get_setting" /\ last.name = "auto_homing_forward"

(* the offset and the length the request on the channel names *)
RequestedOffset ==
  IF OnUSB THEN OwnOps[1].data[4]
  ELSE IF OnI2C THEN OwnOps[1].data[2]
  ELSE OwnOps[1].data[HeaderLen + 1] + 128 * Bit(OwnOps[1].data[HeaderLen + 2], 6)

RequestedLength ==
  IF OnUSB THEN OwnOps[1].data[5]
  ELSE IF OnI2C THEN OwnOps[1].data[3]
  ELSE OwnOps[1].data[HeaderLen + 2] % 64

(* C23 as stated: get_auto_homing_forward requests one byte at setting     *)
(* offset 0x02 and returns whether bit 2 of that byte is set; it reads the *)
(* same byte as get_auto_homing and get_never_sleep.                       *)
C23_AsStated ==
  HomingForward
  => /\ RequestedOffset = 2 /\ RequestedLength = 1
     /\ last.status = "ok" => last.ret = BoolVal(Bit(last.message[1], 2) = 1)

(* what the table row makes of it: one byte at offset 0x03, the byte of    *)
(* disable_safe_start, and bit 2 of that byte; get_auto_homing and         *)
(* get_never_sleep request offset 0x02.                                    *)
C23_Observed ==
  /\ HomingForward
     => /\ RequestedOffset = 3 /\ RequestedLength = 1
        /\ last.status = "ok" => last.ret = BoolVal(Bit(last.message[1], 2) = 1)
  /\ (last.op = "get_setting" /\ last.name \in {"auto_homing", "never_sleep"})
     => RequestedOffset = 2 /\ RequestedLength = 1

(* get_auto_homing_forward has returned True over I2C *)
C23_Failing ==
  /\ HomingForward /\ OnI2C /\ last.status = "ok"
  /\ OwnOps[1] = WriteOp(<<168, 3, 1>>)
  /\ last.ret = BoolVal(TRUE)

---------------------------------------------------------------------------
(* Failed reads inside the methods that make several.                      *)

Failed == last.status = "error"

(* the rows a bulk method reads, in order; none for the other methods *)
RowsOf(op) ==
  CASE op = "get_variables" -> TIC_VARIABLES
    [] op = "get_all"       -> SETTINGS
    [] OTHER                -> <<>>

(* the call stopped at its k-th read: the reads before it succeeded, the   *)
(* k-th failed with the error the call ends with, nothing is returned, and *)
(* the channel saw the operations of these k reads and no other            *)
StoppedAtFailedRead ==
  LET k == Len(last.reads)
  IN  /\ k >= 1
      /\ \A j \in 1..(k - 1) : last.reads[j].status = "ok"
      /\ last.reads[k].status = "error"
      /\ \E out \in {block_read(Self, last.reads[k].code, last.reads[k].offset,
                                last.reads[k].length, last.reads[k].fmt,
                                last.reads[k].resp)} :
           /\ out.status = "error" /\ last.error = out.error
           /\ last.expected = out.expected /\ last.got = out.got
      /\ last.error # ""
      /\ last.ret = NoVal /\ last.dict = <<>>
      /\ OpsOfReads
      /\ \A j \in 1..k : j <= Len(RowsOf(last.op)) =>
           last.reads[j].offset = RowsOf(last.op)[j].offset

(* C24: a failed block read is not retried and yields no partial result:   *)
(* the call ends with the read's error, returns no value and no dict, the  *)
(* channel has seen the operations of the reads up to the failed one and   *)
(* no other, and once failed the call makes no further step; in            *)
(* get_variables and get_all the rows after the failed read are never      *)
(* requested.                                                              *)
C24_NoRetry ==
  /\ [](Failed => StoppedAtFailedRead)
  /\ [][Failed => (wire' = wire /\ last' = last /\ rx' = rx)]_vars

(* get_all has failed at its 88th read, the first read after the table's rows *)
C24_Witness ==
  /\ Failed /\ last.op = "get_all" /\ OnI2C
  /\ Len(last.reads) = Len(SETTINGS) + 1
  /\ Len(OwnOps) = 2 * (Len(SETTINGS) + 1)
  /\ last.error = ExpectedToRead
  /\ last.dict = <<>>

---------------------------------------------------------------------------
(* Channel operations per facade call, in sequences of calls.              *)

(* a step in which a facade call was made: it left its record or its       *)
(* operations, or took a response from a channel                           *)
CallStep ==
  last' # last \/ wire' # wire \/ \E ch \in Chans : Len(rx'[ch]) < Len(rx[ch])

OneOutbound(self, ops) ==
  /\ Len(ops) = 1
  /\ IF self.kind = "TicUSB"
     THEN ops[1].op = "ctrl_transfer" /\ ops[1].data[1] = 64
     ELSE ops[1].op = "write"

RequestThenRead(self, ops) ==
  IF self.kind = "TicUSB"
  THEN Len(ops) = 1 /\ ops[1].op = "ctrl_transfer" /\ ops[1].data[1] = 192
  ELSE Len(ops) = 2 /\ ops[1].op = "write" /\ ops[2].op = "read"

(* C25: in every sequence of calls, a command makes exactly one outbound   *)
(* operation (a write on serial and I2C, an OUT control transfer on USB)   *)
(* and takes nothing from the channel; a variable or setting read makes    *)
(* exactly one request and then exactly one read (on USB the single IN     *)
(* control transfer), taking at most one response; a step that queues a   *)
(* response on a channel is no call and makes no channel operation.        *)
C25_OpsPerCall ==
  [][/\ CallStep =>
          LET self == cfg[last'.tic]
              own  == self.chan
              ops  == wire'[own]
          IN  /\ last'.op \in {"command", "get_variable", "get_setting"}
              /\ \A ch \in Chans \ {own} : wire'[ch] = <<>> /\ rx'[ch] = rx[ch]
              /\ last'.op = "command" => OneOutbound(self, ops) /\ rx' = rx
              /\ last'.op \in {"get_variable", "get_setting"}
                   => /\ RequestThenRead(self, ops)
                      /\ rx'[own] = (IF rx[own] = <<>> THEN <<>> ELSE Tail(rx[own]))
     /\ (\E ch \in Chans : Len(rx'[ch]) > Len(rx[ch])) => wire' = wire /\ last' = last]_vars

(* a serial read has made its write and then its read and taken the        *)
(* response queued for it, while the other channel still holds one         *)
C25_Witness ==
  /\ cfg[1].kind = "TicSerial" /\ cfg[2].kind = "TicUSB"
  /\ last.tic = 1 /\ last.op = "get_variable" /\ last.status = "ok"
  /\ wire[1] = <<WriteOp(<<161, 34, 4>>), ReadOp(4)>>
  /\ wire[2] = <<>> /\ rx[1] = <<>> /\ rx[2] # <<>>

---------------------------------------------------------------------------
(* A serial read that timed out.                                           *)

(* the port's read yielded None, or fewer bytes than it was asked for *)
TimedOut ==
  /\ OnSerial /\ IsRead
  /\ \/ last.resp.isNone
     \/ Len(last.resp.bytes) < last.length + (IF Self.crc_for_responses THEN 1 ELSE 0)

ReadLikelyTimedOut == "Read response returned 'None', read likely timed out"

(* C26 as stated: a serial read that times out (fewer bytes than           *)
(* requested, or nothing at all) fails with the short-read error           *)
(* 'Expected to read L bytes, got n.', with and without response CRC, and  *)
(* not with a distinct timeout condition.                                  *)
C26_AsStated ==
  TimedOut
  => /\ last.status = "error"
     /\ last.error = ExpectedToRead
     /\ last.expected = last.length
     /\ last.error # ReadLikelyTimedOut

(* C26: a serial read that times out always fails and returns nothing.     *)
(* Without response CRC, fewer bytes than requested (zero included) give   *)
(* 'Expected to read L bytes, got n.' and None gives the distinct error    *)
(* "Read response returned 'None', read likely timed out".  With response  *)
(* CRC, fewer than L + 1 bytes give 'Response does not contain CRC byte'   *)
(* and None gives a TypeError.                                             *)
C26_TimedOut ==
  TimedOut
  => /\ last.status = "error" /\ last.ret = NoVal
     /\ Len(OwnOps) = 2 /\ OwnOps[1].op = "write" /\ OwnOps[2].op = "read"
     /\ (~Self.crc_for_responses /\ ~last.resp.isNone)
          => /\ last.error = ExpectedToRead
             /\ last.expected = last.length /\ last.got = Len(last.resp.bytes)
     /\ (~Self.crc_for_responses /\ last.resp.isNone) => last.error = ReadLikelyTimedOut
     /\ (Self.crc_for_responses /\ ~last.resp.isNone)
          => last.error = "Response does not contain CRC byte"
     /\ (Self.crc_for_responses /\ last.resp.isNone) => last.error = "TypeError"

(* the port yielded None to a read without response CRC *)
C26_Witness ==
  /\ TimedOut /\ last.resp.isNone /\ ~Self.crc_for_responses
  /\ last.op = "get_variable" /\ last.length = 4
  /\ last.error = ReadLikelyTimedOut

---------------------------------------------------------------------------
(* Two callers on one channel.                                             *)

OtherCaller(c) == CHOOSE d \in Tics : d # c

(* the caller whose request the channel answered caller c's read with,     *)
(* when both asked for the same number of bytes: on a serial line the      *)
(* answers come in the order of the requests; on I2C the read is answered  *)
(* from the latest request                                                 *)
ServedBy(c) ==
  LET d == OtherCaller(c)
      betweenWriteAndRead == last[d].wrote > last[c].wrote /\ last[d].wrote < last[c].read
      firstToRead  == last[d].read = 0 \/ last[c].read < last[d].read
      firstToWrite == last[d].wrote = 0 \/ last[c].wrote < last[d].wrote
  IN  IF cfg[c].kind = "TicI2C"
      THEN (IF betweenWriteAndRead THEN d ELSE c)
      ELSE (IF firstToRead = firstToWrite THEN c ELSE d)

(* caller c's read returned, without an error, the bytes that answer the   *)
(* other caller's request                                                  *)
Crossed(c) ==
  /\ last[c].pc = "done" /\ last[c].out.status = "ok"
  /\ last[OtherCaller(c)].wrote # 0
  /\ last[OtherCaller(c)].offset # last[c].offset
  /\ last[c].out.message =
       DeviceValue(last[OtherCaller(c)].offset, last[OtherCaller(c)].length)

(* C27: the adapters take no lock.  On serial and I2C a caller that has    *)
(* written its request and not yet read the response does not keep the     *)
(* other caller from writing its own request; a read for a length both     *)
(* callers asked for then returns without error the bytes of whichever     *)
(* request the channel answers it with, its own or the other caller's, and *)
(* the result is that request's value, formatted.  On USB, where the block *)
(* read is a single transfer, a read always returns its own answer.        *)
C27_Unserialized ==
  \A c \in Tics :
    LET d == OtherCaller(c)
    IN  /\ (cfg[c].kind # "TicUSB" /\ last[c].pc = "sent" /\ last[d].pc = "idle")
             => ENABLED DoSharedRequest
        /\ (cfg[c].kind # "TicUSB" /\ last[c].pc = "done"
              /\ (last[d].wrote = 0 \/ last[d].length = last[c].length))
             => LET s == ServedBy(c)
                IN  /\ last[c].out.status = "ok"
                    /\ last[c].out.message = DeviceValue(last[s].offset, last[s].length)
                    /\ last[c].out.ret =
                         (IF last[c].fmt.f = "None"
                          THEN BytesVal(last[c].out.message)
                          ELSE ApplyFormat(last[c].fmt, last[c].out.message).val)
                    /\ wire[1][last[c].wrote].op = "write"
                    /\ wire[1][last[c].read] = ReadOp(ReadLength(cfg[c], last[c].length))
        /\ (cfg[c].kind = "TicUSB" /\ last[c].pc = "done")
             => /\ last[c].out.status = "ok"
                /\ last[c].out.message = DeviceValue(last[c].offset, last[c].length)
                /\ ~Crossed(c)

(* on a serial line with response CRC both callers asked for four bytes;   *)
(* caller 2 wrote first and caller 1 read first: caller 1's                *)
(* get_current_position returned the bytes of target_position              *)
C27_Witness ==
  /\ cfg[1].kind = "TicSerial" /\ cfg[1].crc_for_responses
  /\ last[1].name = "current_position" /\ last[2].name = "target_position"
  /\ last[2].wrote = 1 /\ last[1].wrote = 2 /\ last[1].read = 3
  /\ Crossed(1)
  /\ last[1].out.message = <<11, 12, 13, 14>>
  /\ last[1].out.ret = IntVal(signed_int(<<11, 12, 13, 14>>))

---------------------------------------------------------------------------
(* Configuration across calls.                                             *)

(* the row of table the call named, with the fields the call was made with *)
CommandRowOf(call) ==
  \E i \in 1..Len(COMMANDS) :
    COMMANDS[i] = Cmd(call.name, call.code, call.format)

ReadRowOf(call) ==
  LET table == IF call.op = "get_variable" THEN TIC_VARIABLES ELSE SETTINGS
  IN  /\ call.code = (IF call.op = "get_variable" THEN GET_VARIABLE_CMD ELSE GET_SETTING_CMD)
      /\ \E i \in 1..Len(table) :
           table[i] = Entry(call.name, call.offset, call.length, call.fmt)

(* C28: no command and no read, successful or failed, changes an           *)
(* instance's configuration (device number, commands-CRC flag,             *)
(* responses-CRC flag, channel) or the row a name stands for; so in every  *)
(* sequence of calls the operations a call makes are those the unchanged   *)
(* configuration and the call's own arguments give, whatever was called    *)
(* before.                                                                 *)
C28_ConfigFixed ==
  [][/\ cfg' = cfg
     /\ CallStep =>
          LET t    == last'.tic
              self == cfg[t]
              ops  == wire'[self.chan]
          IN  /\ last'.op = "command"
                   => /\ CommandRowOf(last')
                      /\ ops = send_command(self, last'.code, last'.format, last'.value)
              /\ last'.op \in {"get_variable", "get_setting"}
                   => /\ ReadRowOf(last')
                      /\ ops = block_read(self, last'.code, last'.offset, last'.length,
                                          last'.fmt, last'.resp).ops]_vars

(* a read on a serial line has failed, answered with one byte instead of   *)
(* four; the instance is configured as constructed                         *)
C28_Witness ==
  /\ last.tic = 1 /\ last.op = "get_variable" /\ last.status = "error"
  /\ last.expected = 4 /\ last.got = 1
  /\ cfg[1] = TicSerial(1, NoDeviceNumber, FALSE, FALSE)
  /\ wire[1] = <<WriteOp(<<161, 34, 4>>), ReadOp(4)>>

---------------------------------------------------------------------------
(* The serial 32-bit payload read back.                                    *)

(* byte i (0..3) of the value a five-byte payload stands for: the data     *)
(* byte with bit i of the first byte as its bit 7                          *)
DecodedByte(p, i) == p[i + 2] + 128 * Bit(p[1], i)

(* the sum over i of DecodedByte(p, i) * 256^i, in two 16-bit halves *)
Decoded(p) ==
  Wide(DecodedByte(p, 2) + 256 * DecodedByte(p, 3),
       DecodedByte(p, 0) + 256 * DecodedByte(p, 1))

(* v mod 2^32, in two 16-bit halves *)
Mod32(v) == Wide(Shr(v, 16) % 65536, v % 65536)

(* C29: the five-byte serial payload of a 32-bit value v loses nothing: v  *)
(* mod 2^32 is the sum over i in 0..3 of (p[i+1] + 128 * bit i of p[0]) *  *)
(* 256^i, each term's factor being a byte, and no other 32-bit value has   *)
(* the same payload.                                                       *)
C29_Lossless ==
  Serial32
  => /\ Len(Payload) = 5
     /\ \A i \in 0..3 : DecodedByte(Payload, i) = Shr(last.value, 8 * i) % 256
     /\ Decoded(Payload) = Mod32(last.value)
     /\ \A w \in Vals32 : SerialThirtyTwoBits(w) = Payload => w = last.value

(* -129 has been sent: bytes FF FF FF 7F of its two's complement come back *)
C29_Witness ==
  /\ Serial32 /\ last.value = -129
  /\ Payload = <<14, 127, 127, 127, 127>>
  /\ Decoded(Payload) = Wide(65535, 65407)

---------------------------------------------------------------------------
(* Device number 0.                                                        *)

(* the frame is the command code followed by payload and CRC byte *)
CompactFrame ==
  /\ Frame[1] = last.code
  /\ Len(Frame) = 1 + PayloadLen(last.format) + (IF Self.crc_for_commands THEN 1 ELSE 0)

(* the frame is 0xAA, the device number and the code without its bit 7,    *)
(* followed by payload and CRC byte                                        *)
PololuFrame ==
  /\ Len(Frame) = 3 + PayloadLen(last.format) + (IF Self.crc_for_commands THEN 1 ELSE 0)
  /\ SubSeq(Frame, 1, 3) = <<170, Self.device_number, last.code % 128>>

(* C30: a serial adapter constructed with device number 0 frames every     *)
(* command and every read request as [0xAA, 0, wire_code & 0x7F, ...]; the *)
(* compact framing [wire_code, ...] is used exactly when no device number  *)
(* was given.                                                              *)
C30_DeviceNumberZero ==
  OnSerial
  => /\ Self.device_number = 0
          => PololuFrame /\ SubSeq(Frame, 1, 3) = <<170, 0, last.code % 128>>
     /\ Self.device_number # NoDeviceNumber => PololuFrame /\ ~CompactFrame
     /\ Self.device_number = NoDeviceNumber => CompactFrame /\ ~PololuFrame

(* a setting read requested by an adapter with device number 0 *)
C30_Witness ==
  /\ OnSerial /\ Self.device_number = 0 /\ ~Self.crc_for_commands
  /\ last.op = "get_setting" /\ last.name = "never_sleep"
  /\ Frame = <<170, 0, 40, 2, 1>>

=============================================================================
